---- MODULE Spec2Model ----
(***************************************************************************)
(* Model of the plant-care firmware esp32-homecontrol-no-std-rs:           *)
(*   - the sample aggregator (sensors_task.rs, calculate_average),         *)
(*   - the battery read and the acquisition cycle (sensors_task.rs),       *)
(*   - the one-wire decoder (dht11.rs),                                    *)
(*   - the task fabric: main, sensor_task, update_task, relay_task with    *)
(*     the reading channel and the ENABLE_PUMP signal.                     *)
(* Each part has its own specification over the shared variables; the      *)
(* variables a specification does not use stay at their initial value.     *)
(***************************************************************************)
EXTENDS Integers, Sequences, FiniteSets, TLC

(***************************************************************************)
(* Program constants.                                                      *)
(***************************************************************************)
SENSOR_SAMPLE_COUNT == 5
USB_CHARGING_VOLTAGE == 4100
PUMP_TRIGGER_INTERVAL == 10
WATER_LEVEL_THRESHOLD == 3000
MOISTURE_MIN == 800
MOISTURE_MAX == 2150
\* MOISTURE_WET_THRESHOLD = 0.8 and MOISTURE_DRY_THRESHOLD = 0.15, in percent
MOISTURE_WET_THRESHOLD == 80
MOISTURE_DRY_THRESHOLD == 15
\* capacity of SensorData.data (heapless::Vec<Sensor, 7>)
SENSOR_DATA_CAPACITY == 7
\* capacity of CHANNEL (Channel<NoopRawMutex, SensorData, 3>)
CHANNEL_CAPACITY == 3
TIMEOUT_US == 1000
DHT11_WARMUP_DELAY_MILLISECONDS == 2000
SENSOR_WARMUP_DELAY_MILLISECONDS == 50

U8_MAX == 255
U16_MAX == 65535
\* u32 holds x exactly when x < 2^32 = 65536 * 65536
U16_MOD == 65536

FitsU32(x) == x \div U16_MOD < U16_MOD

(***************************************************************************)
(* Option<T>                                                               *)
(***************************************************************************)
None == [some |-> FALSE, v |-> 0]

Some(x) == [some |-> TRUE, v |-> x]

(***************************************************************************)
(* Helpers on sequences.                                                   *)
(***************************************************************************)
RECURSIVE SumSeq(_)
SumSeq(s) == IF s = <<>> THEN 0 ELSE Head(s) + SumSeq(Tail(s))

RECURSIVE InsertSorted(_, _)
InsertSorted(x, s) ==
    IF s = <<>> THEN <<x>>
    ELSE IF x <= Head(s) THEN <<x>> \o s
    ELSE <<Head(s)>> \o InsertSorted(x, Tail(s))

\* samples.sort_unstable(): ascending order (elements are integers, so the
\* instability of the sort is not observable)
RECURSIVE SortUnstable(_)
SortUnstable(s) ==
    IF s = <<>> THEN <<>> ELSE InsertSorted(Head(s), SortUnstable(Tail(s)))

\* the largest value of the sample type T (u8 or u16), for u32::try_into::<T>
MaxOfWidth(w) == IF w = 8 THEN U8_MAX ELSE U16_MAX

(***************************************************************************)
(* calculate_average<T>(samples: &mut [T]) -> Option<T>                    *)
(***************************************************************************)
\* mutant: the too-few-samples guard is missing and the mean of what there is
\* is returned
CalculateAverage_NoGuard(samples, w) ==
    IF Len(samples) = 0 THEN None
    ELSE IF Len(samples) <= 2 THEN Some(SumSeq(samples) \div Len(samples))
    ELSE LET sorted == SortUnstable(samples)
             trimmed == SubSeq(sorted, 2, Len(sorted) - 1)
         IN Some(SumSeq(trimmed) \div Len(trimmed))

\* mutant: only the minimum is removed (slice [1..len] instead of [1..len-1])
CalculateAverage_KeepMax(samples, w) ==
    IF Len(samples) <= 2 THEN None
    ELSE LET sorted == SortUnstable(samples)
             trimmed == SubSeq(sorted, 2, Len(sorted))
         IN Some(SumSeq(trimmed) \div Len(trimmed))

CalculateAverage(samples, w) ==
    IF Len(samples) <= 2 THEN None
    ELSE LET sorted == SortUnstable(samples)
             trimmed == SubSeq(sorted, 2, Len(sorted) - 1)
             sum == SumSeq(trimmed)       \* u32 accumulator, see SumOverflows
         IN IF Len(trimmed) = 0 THEN None                 \* checked_div
            ELSE LET avg == sum \div Len(trimmed)
                 IN IF avg <= MaxOfWidth(w) THEN Some(avg) ELSE None

\* whether the u32 accumulator of the call would overflow
SumOverflows(samples) ==
    /\ Len(samples) > 2
    /\ ~FitsU32(SumSeq(SubSeq(SortUnstable(samples), 2, Len(samples) - 1)))

\* the slice after the call: sorted in place unless the early return is taken
SamplesAfterAverage(samples) ==
    IF Len(samples) <= 2 THEN samples ELSE SortUnstable(samples)

(***************************************************************************)
(* domain.rs: conversions of aggregated raw values.                        *)
(***************************************************************************)
\* impl From<u16> for WaterLevel
\* mutant: the threshold itself still reads Empty
WaterLevelFrom_Exclusive(value) ==
    IF value <= WATER_LEVEL_THRESHOLD THEN "Empty" ELSE "Full"

WaterLevelFrom(value) ==
    IF value < WATER_LEVEL_THRESHOLD THEN "Empty" ELSE "Full"

\* value.clamp(MOISTURE_MIN, MOISTURE_MAX)
\* mutant: only the lower bound is applied
ClampSoilMoisture_NoUpper(value) ==
    IF value < MOISTURE_MIN THEN MOISTURE_MIN ELSE value

ClampSoilMoisture(value) ==
    IF value < MOISTURE_MIN THEN MOISTURE_MIN
    ELSE IF value > MOISTURE_MAX THEN MOISTURE_MAX
    ELSE value

\* a - b in u16 where the build does not trap: modulo 2^16
WrappingSubU16(a, b) == (a - b + U16_MOD) % U16_MOD

\* whether MOISTURE_MAX - clamped leaves u16 (a panic where the build traps)
MoistureSubUnderflows(value) == ClampSoilMoisture(value) > MOISTURE_MAX

\* mutant: a wetness equal to the threshold is Wet (p >= MOISTURE_WET_THRESHOLD)
MoistureLevelFrom_WetInclusive(value) ==
    LET clamped == ClampSoilMoisture(value)
        num == WrappingSubU16(MOISTURE_MAX, clamped) * 100
        den == MOISTURE_MAX - MOISTURE_MIN
    IN IF num >= MOISTURE_WET_THRESHOLD * den THEN "Wet"
       ELSE IF num < MOISTURE_DRY_THRESHOLD * den THEN "Dry"
       ELSE "Moist"

\* impl From<u16> for MoistureLevel.  The f32 quotient
\* (MOISTURE_MAX - clamped) / (MOISTURE_MAX - MOISTURE_MIN) is compared with
\* 0.8 and 0.15; the comparison is done here in integers, scaled by 100 (the
\* only quotient equal to a threshold is 1080/1350 = 0.8, which f32 division
\* rounds to the same float as the literal 0.8, so it is not above it).
MoistureLevelFrom(value) ==
    LET clamped == ClampSoilMoisture(value)
        num == WrappingSubU16(MOISTURE_MAX, clamped) * 100
        den == MOISTURE_MAX - MOISTURE_MIN
    IN IF num > MOISTURE_WET_THRESHOLD * den THEN "Wet"
       ELSE IF num < MOISTURE_DRY_THRESHOLD * den THEN "Dry"
       ELSE "Moist"

\* impl From<u16> for SoilMoistureRawLevel
SoilMoistureRawLevelFrom(value) == ClampSoilMoisture(value)

\* one Sensor value: the variant and its payload
Reading(k, x) == [kind |-> k, val |-> x]

\* heapless::Vec::push on SensorData.data: fails (and leaves the vector) when full
\* mutant: the vector has one slot less
PushReading_SixSlots(data, r) ==
    IF Len(data) < SENSOR_DATA_CAPACITY - 1 THEN Append(data, r) ELSE data

PushReading(data, r) ==
    IF Len(data) < SENSOR_DATA_CAPACITY THEN Append(data, r) ELSE data

\* heapless::Vec::push on a sample vector of capacity SENSOR_SAMPLE_COUNT
PushSample(samples, x) ==
    IF Len(samples) < SENSOR_SAMPLE_COUNT THEN Append(samples, x) ELSE samples

(***************************************************************************)
(* sensors_task.rs: read_battery_voltage.  adc is the Option<u16> that     *)
(* sample_adc_with_warmup returned; raw values are those of the ADC, for   *)
(* which raw * 2 fits u16.                                                 *)
(***************************************************************************)
\* mutant: no charging-voltage filter in the read (every scaled sample is kept)
ReadBatteryVoltage_NoFilter(adc) ==
    IF ~adc.some THEN None ELSE Some(adc.v * 2)

\* mutant: the comparison is <= instead of <
ReadBatteryVoltage_Inclusive(adc) ==
    IF ~adc.some THEN None
    ELSE IF adc.v * 2 <= USB_CHARGING_VOLTAGE THEN Some(adc.v * 2) ELSE None

ReadBatteryVoltage(adc) ==
    IF ~adc.some THEN None
    ELSE LET value == adc.v * 2
         IN IF value < USB_CHARGING_VOLTAGE THEN Some(value) ELSE None

(***************************************************************************)
(* sensors_task.rs: build_sensor_data on the five sample vectors (air     *)
(* humidity, air temperature, soil moisture, battery voltage, water level);*)
(* boot_count is BOOT_COUNT.get().                                         *)
(***************************************************************************)
\* build_sensor_data: boot_count.is_multiple_of(PUMP_TRIGGER_INTERVAL)
\* mutant: the count of the boot before is tested
PumpEnabled_CountBefore(boot_count) ==
    (boot_count + PUMP_TRIGGER_INTERVAL - 1) % PUMP_TRIGGER_INTERVAL = 0

PumpEnabled(boot_count) == boot_count % PUMP_TRIGGER_INTERVAL = 0

\* the readings of the batch, in the order build_sensor_data pushes them
BuildReadings(hum, temp, soil, batt, water, boot_count) ==
    LET avg_hum == CalculateAverage(hum, 8)
        avg_temp == CalculateAverage(temp, 8)
        avg_water == CalculateAverage(water, 16)
        avg_soil == CalculateAverage(soil, 16)
        avg_batt == CalculateAverage(batt, 16)
        pump_enabled == PumpEnabled(boot_count)
        d0 == <<>>
        d1 == IF avg_hum.some
              THEN PushReading(d0, Reading("AirHumidity", avg_hum.v)) ELSE d0
        d2 == IF avg_temp.some
              THEN PushReading(d1, Reading("AirTemperature", avg_temp.v)) ELSE d1
        d3 == IF avg_water.some
              THEN PushReading(d2, Reading("WaterLevel", WaterLevelFrom(avg_water.v)))
              ELSE d2
        d4 == IF avg_soil.some
              THEN PushReading(
                       PushReading(d3, Reading("SoilMoistureRaw",
                                               SoilMoistureRawLevelFrom(avg_soil.v))),
                       Reading("SoilMoisture", MoistureLevelFrom(avg_soil.v)))
              ELSE d3
        d5 == PushReading(d4, Reading("PumpTrigger", pump_enabled))
        d6 == IF avg_batt.some
              THEN PushReading(d5, Reading("BatteryVoltage", avg_batt.v)) ELSE d5
    IN d6

\* mutant: publish follows the battery aggregate (at least 3 samples) instead
\* of the battery sample set
BuildSensorData_PublishIfAverage(hum, temp, soil, batt, water, boot_count) ==
    [data |-> BuildReadings(hum, temp, soil, batt, water, boot_count),
     publish |-> CalculateAverage(batt, 16).some]

BuildSensorData(hum, temp, soil, batt, water, boot_count) ==
    [data |-> BuildReadings(hum, temp, soil, batt, water, boot_count),
     publish |-> batt # <<>>]

\* SensorData::default()
EmptySensorData == [data |-> <<>>, publish |-> FALSE]

\* whether a batch holds a reading of the given variant and payload
HasReading(sd, k, x) ==
    \E j \in 1..Len(sd.data) : sd.data[j].kind = k /\ sd.data[j].val = x

\* whether a batch holds a reading of the given variant
HasKind(sd, k) == \E j \in 1..Len(sd.data) : sd.data[j].kind = k

(***************************************************************************)
(* dht11.rs: the one-wire decoder.  A pulse is what the line does while    *)
(* wait_for_pulse polls it: the number d of polls for which the line stays *)
(* at the other level before it shows the awaited one, or a GPIO error.    *)
(***************************************************************************)
\* Result<_, Error<E>>
Ok(x) == [kind |-> "Ok", v |-> x]

Err(e) == [kind |-> e, v |-> 0]

LevelPulse(d) == [kind |-> "level", d |-> d]

GpioFault == [kind |-> "gpio", d |-> 0]

\* mutant: a failing gpio.is_high() is reported as a timeout
WaitForPulse_GpioAsTimeout(pulse) ==
    IF pulse.kind = "gpio" THEN Err("Timeout")
    ELSE IF pulse.d > TIMEOUT_US THEN Err("Timeout")
    ELSE Ok(pulse.d)

\* mutant: the loop gives up one poll early (count >= TIMEOUT_US)
WaitForPulse_Early(pulse) ==
    IF pulse.kind = "gpio" THEN Err("Gpio")
    ELSE IF pulse.d >= TIMEOUT_US THEN Err("Timeout")
    ELSE Ok(pulse.d)

\* wait_for_pulse: count is incremented once per poll that shows the other
\* level and the wait fails when count > TIMEOUT_US
WaitForPulse(pulse) ==
    IF pulse.kind = "gpio" THEN Err("Gpio")
    ELSE IF pulse.d > TIMEOUT_US THEN Err("Timeout")
    ELSE Ok(pulse.d)

\* wait_for_pulse: the test made after count += 1
\* mutant: the loop allows one more poll (count > TIMEOUT_US + 1)
TimedOut_Late(count) == count > TIMEOUT_US + 1

TimedOut(count) == count > TIMEOUT_US

\* the number of wait_for_pulse calls read_bit makes: the second is skipped
\* when the first returns Err
ReadBitWaits(low_pulse, high_pulse) ==
    IF WaitForPulse(low_pulse).kind # "Ok" THEN 1 ELSE 2

\* the number of wait_for_pulse calls perform_handshake makes
HandshakeWaits(gpio_fail, low_pulse, high_pulse) ==
    IF gpio_fail THEN 0 ELSE ReadBitWaits(low_pulse, high_pulse)

\* read_bit: the low pulse, then the high pulse; the bit is high > low
\* mutant: pulses of equal length read as 1 (high >= low)
ReadBit_NotStrict(low_pulse, high_pulse) ==
    LET low == WaitForPulse(low_pulse)
        high == WaitForPulse(high_pulse)
    IN IF low.kind # "Ok" THEN low
       ELSE IF high.kind # "Ok" THEN high
       ELSE Ok(high.v >= low.v)

ReadBit(low_pulse, high_pulse) ==
    LET low == WaitForPulse(low_pulse)
        high == WaitForPulse(high_pulse)
    IN IF low.kind # "Ok" THEN low
       ELSE IF high.kind # "Ok" THEN high
       ELSE Ok(high.v > low.v)

\* perform_handshake: set_high, set_low, set_high (gpio_fail = one of them
\* fails), then the acknowledgement pulse pair, read with read_bit
PerformHandshake(gpio_fail, low_pulse, high_pulse) ==
    IF gpio_fail THEN Err("Gpio")
    ELSE LET ack == ReadBit(low_pulse, high_pulse)
         IN IF ack.kind # "Ok" THEN ack ELSE Ok(TRUE)

\* data[i / 8] <<= 1; if bit { data[i / 8] |= 1 }   (u8; index i / 8 is 0-based)
ShiftInBit(data, i, bit) ==
    [data EXCEPT ![(i \div 8) + 1] =
        ((data[(i \div 8) + 1] * 2) % (U8_MAX + 1)) + (IF bit THEN 1 ELSE 0)]

\* mutant: the checksum leaves out data[3]
Crc_ThreeBytes(data) == (data[1] + data[2] + data[3]) % (U8_MAX + 1)

\* data[0].wrapping_add(data[1]).wrapping_add(data[2]).wrapping_add(data[3])
Crc(data) == (data[1] + data[2] + data[3] + data[4]) % (U8_MAX + 1)

\* the Measurement that read returns: temperature: data[1], humidity: data[0]
MeasurementOf(data) == [temperature |-> data[2], humidity |-> data[1]]

\* Result<Measurement, Error<E>> as read returns it: the errors of the inner
\* calls are passed on by ?, with nothing in the place of the Measurement
ReadResult(r) ==
    IF r.kind = "Ok" THEN r
    ELSE [kind |-> r.kind, v |-> [temperature |-> 0, humidity |-> 0]]

\* the end of read after the 40 bits: wait for idle, then the CRC check
FinishRead(data, idle_pulse) ==
    LET idle == WaitForPulse(idle_pulse)
    IN IF idle.kind # "Ok" THEN idle
       ELSE IF Crc(data) # data[5] THEN Err("CrcMismatch")
       ELSE Ok(MeasurementOf(data))

(***************************************************************************)
(* update_task.rs, relay_task.rs, main.rs: the decisions of the tasks.     *)
(***************************************************************************)
\* a batch with its sequence number since boot (the number is history only)
Tagged(sd, n) == [data |-> sd.data, publish |-> sd.publish, seq |-> n]

NoBatch == Tagged(EmptySensorData, 0)

\* Signal::signal: the one slot takes the value, whatever it held
\* main: the value stored by BOOT_COUNT.set(boot_count + 1)
\* mutant: the value read is stored back
NextBootCount_Same(boot_count) == boot_count

NextBootCount(boot_count) == boot_count + 1

\* what makes main run: power-on, the wake-up from deep sleep, or the
\* software_reset after main_fallible failed at a step
PowerOn == [kind |-> "power_on", step |-> ""]

Wake == [kind |-> "wake", step |-> ""]

SoftwareReset(step) == [kind |-> "software_reset", step |-> step]

\* main_fallible is past its fallible steps: the origin is no longer recorded
Initialized == [kind |-> "none", step |-> ""]

\* main_fallible in program order: Wi-Fi, Display::new, the first display
\* write, the three spawns, the awake timer
MainFallibleSteps ==
    <<"wifi", "display", "write", "spawn_update", "spawn_sensor", "spawn_relay",
      "timer">>

\* main_fallible after the awake timer: STOP_WIFI_SIGNAL.signal, the display
\* power pin low, enter_deep
\* mutant: the Wi-Fi task is not told to stop
SleepSteps_NoSignal == <<"power_off", "enter_deep">>

SleepSteps == <<"stop_wifi", "power_off", "enter_deep">>

\* the steps of main_fallible that end in ? and so can return Err
\* mutant: any step can fail
CanFail_Any(step) == TRUE

CanFail(step) == step \in {"wifi", "display", "write"}

\* whether main_fallible has executed the named spawn before it reaches step
SpawnedBefore(step, spawn) ==
    \E k \in 1..(step - 1) : MainFallibleSteps[k] = spawn

\* Channel<_, SensorData, 3>: whether send finds a free slot
\* mutant: the channel takes any number of batches
ChannelHasRoom_Always(channel) == TRUE

ChannelHasRoom(channel) == Len(channel) < CHANNEL_CAPACITY

\* mutant: a value already pending is kept
SignalValue_KeepFirst(slot, state) == IF slot.some THEN slot ELSE Some(state)

SignalValue(slot, state) == Some(state)

\* relay_task: whether the value taken from ENABLE_PUMP starts a run
\* mutant: every value starts a run
StartsRun_Always(start_pump) == TRUE

StartsRun(start_pump) == start_pump

\* handle_sensor_data: whether publish_sensor_data runs for the batch
\* mutant: the publish flag is ignored
ShouldPublish_Always(sd) == TRUE

ShouldPublish(sd) == sd.publish

\* publish_sensor_data: allow_enable_pump
\* mutant: the pump is allowed unless the reservoir is reported Full
AllowEnablePump_UnlessFull(sd) == ~HasReading(sd, "WaterLevel", "Full")

AllowEnablePump(sd) == HasReading(sd, "WaterLevel", "Empty")

\* publish_sensor_data: the state passed to update_pump_state for one
\* PumpTrigger(enabled) entry
\* mutant: the trigger is forwarded whatever the water level
PumpStateFor_Trigger(sd, enabled) == enabled

PumpStateFor(sd, enabled) == IF AllowEnablePump(sd) THEN enabled ELSE FALSE

IsPumpTrigger(r) == r.kind = "PumpTrigger"

\* publish_sensor_data: the values signalled for the batch, in order
PumpSignals(sd) ==
    LET triggers == SelectSeq(sd.data, IsPumpTrigger)
    IN [j \in 1..Len(triggers) |-> PumpStateFor(sd, triggers[j].val)]

\* the slot after a sequence of Signal::signal calls
RECURSIVE SignalAll(_, _)
SignalAll(slot, states) ==
    IF Len(states) = 0 THEN slot
    ELSE SignalAll(SignalValue(slot, Head(states)), Tail(states))

\* the topic update_task subscribes to, and any other topic
PumpSetTopic == "esp32_breadboard/pump/set"

OtherTopic == "esp32_breadboard/other"

\* a received payload: valid UTF-8 with its text, or not valid UTF-8
Utf8(text) == [utf8 |-> TRUE, text |-> text]

NotUtf8 == [utf8 |-> FALSE, text |-> ""]

\* process_received_mqtt_message: the state signalled on ENABLE_PUMP (if any)
\* and the MqttAction returned
\* mutant: without the test message.is_empty()
ProcessReceivedMqttMessage_NoEmptyTest(topic, payload) ==
    IF ~payload.utf8 THEN [signal |-> None, action |-> "None"]
    ELSE IF topic # PumpSetTopic THEN [signal |-> None, action |-> "None"]
    ELSE LET state == payload.text = "OPEN"
         IN [signal |-> Some(state),
             action |-> IF state THEN "ClearRetained" ELSE "None"]

ProcessReceivedMqttMessage(topic, payload) ==
    IF ~payload.utf8 THEN [signal |-> None, action |-> "None"]
    ELSE IF topic # PumpSetTopic THEN [signal |-> None, action |-> "None"]
    ELSE IF payload.text = "" THEN [signal |-> None, action |-> "None"]
    ELSE LET state == payload.text = "OPEN"
         IN [signal |-> Some(state),
             action |-> IF state THEN "ClearRetained" ELSE "None"]

(***************************************************************************)
(* rtc_memory.rs: RtcCell<T>.  get and set run inside critical_section::with *)
(* on a single core, so each is one step.                                  *)
(***************************************************************************)
\* RtcCell::get: a copy of the contained value
RtcGet(cell) == cell

\* RtcCell::set
\* mutant: the store is lost
RtcSet_Lost(cell, value) == cell

RtcSet(cell, value) == value

(***************************************************************************)
(* Variables.                                                              *)
(***************************************************************************)
VARIABLES
    \* --- one call of calculate_average (aggregator specification)
    avg_pc,        \* "idle" | "call" | "returned"
    avg_width,     \* 8 or 16: the sample type T
    avg_input,     \* the slice as passed by the caller
    avg_samples,   \* the slice (sorted in place by the call)
    avg_result,    \* the Option<T> returned
    \* --- the conversions of domain.rs applied to one raw value
    dom_pc,        \* "idle" | "call" | "returned"
    dom_value,     \* the raw u16 value
    dom_moisture,  \* MoistureLevel::from(value)
    dom_raw_level, \* SoilMoistureRawLevel::from(value)
    dom_water,     \* WaterLevel::from(value)
    \* --- one acquisition cycle (collect_all_sensor_data)
    acq_pc,        \* position of sensor_task inside collect_all_sensor_data
    acq_i,         \* the loop variable i of the sample loop
    air_humidity_samples,
    air_temperature_samples,
    soil_moisture_samples,
    battery_voltage_samples,
    water_level_samples,
    moisture_power_pin,      \* TRUE = high
    water_level_power_pin,   \* TRUE = high
    acq_sensor_data,         \* the SensorData returned by build_sensor_data
    hw,                      \* what the sensor hardware can answer to each read
    battery_adc_log,         \* history: the ADC result of every battery read
    acq_dht_result,          \* history: what the last read_dht11_sensor returned
    \* --- one call of Dht11::read
    dht_pc,        \* "idle" | "handshake" | "bits" | "finish" | "done"
    dht_data,      \* the local array data: [u8; 5]
    dht_i,         \* the loop variable i: the number of bits read
    dht_result,    \* what read returned
    dht_frame,     \* the five bytes the sensor transmits
    dht_line_ok,   \* history: every pulse so far ended within TIMEOUT_US polls
                   \* and no GPIO operation failed
    dht_waits,     \* history: the number of wait_for_pulse calls of this read
    dht_gpio_failed,   \* history: the GPIO operation of this read that failed
    \* --- one call of wait_for_pulse, poll by poll
    wait_pc,       \* "idle" | "poll" | "done"
    wait_level,    \* the awaited level: TRUE = high
    wait_count,    \* the local count: u16
    wait_polls,    \* history: the number of gpio.is_high() calls
    wait_result,   \* what wait_for_pulse returned
    \* --- RTC fast memory
    BOOT_COUNT,
    DISCOVERY_MESSAGES_SENT,
    \* --- one RtcCell<T> used by the tasks (cell specification)
    rtc_cell,      \* the value in the UnsafeCell
    rtc_written,   \* history: the argument of the last set, or the initial value
    rtc_op,        \* history: the last call on the cell, with its value
    rtc_prev_op,   \* history: the call before that
    \* --- the firmware as a whole: main and the three tasks it spawns
    main_pc,       \* "boot" | "init" | "awake" | "sleep"
    boots,         \* history: the number of boots so far
    boot_origin,   \* history: what started the initialization in progress
    main_log,      \* history: what main did in this boot, in program order
    CHANNEL,       \* the batches queued between sensor_task and update_task
    ENABLE_PUMP,   \* the Signal<bool>: None, or the one pending value
    sensor_pc,     \* "off" | "collect" | "send" | "timer"
    sensor_data,   \* the batch sensor_task is about to send
    batches,       \* history: the number of batches built since boot
    update_pc,     \* position of update_task (see the actions)
    upd_sensor_data,   \* the batch handle_sensor_data is working on
    upd_i,         \* publish_sensor_data: index of the next reading to publish
    upd_signals,   \* history: the values signalled on ENABLE_PUMP for this batch
    relay_pc,      \* "off" | "wait" | "run"
    pump_pin,      \* the relay pin: TRUE = high
    pump_origin,   \* history: who wrote the value pending in ENABLE_PUMP
    relay_taken,   \* history: the last value relay_task took, and its origin
    wire,          \* history: the sensor readings published since boot
    \* --- histories of the relay specification
    rel_signalled, \* the values signalled since relay_task last took one
    rel_signals,   \* the number of values signalled so far
    rel_in_run,    \* the number of values signalled while a run was going on
    rel_log,       \* the values relay_task took, each with what was signalled for it
    rel_runs,      \* the number of times the relay pin went from low to high
    \* --- history of the trigger specification
    trigger_log,   \* per batch built: the boot, the BOOT_COUNT read, the PumpTrigger
    \* --- time of the awake specification
    awake_ms,      \* milliseconds since main spawned the tasks
    awake_window,  \* AWAKE_DURATION_SECONDS of the build
    sensor_timer_ms,   \* when the sampling timer of sensor_task expires
    \* --- clock specification (clock.rs)
    clk_pc,        \* "idle", "call" or "done"
    clk_now,       \* the Duration now, in ticks
    clk_period,    \* the Duration period, in ticks
    clk_then,      \* what next_rounded_wakeup returned, in ticks
    clk_wait,      \* what duration_to_next_rounded_wakeup returned, in ticks
    \* --- the boot counter at the width of u32 (main.rs)
    wrap_pc,       \* "idle" | "main" | "main_fallible" | "panicked"
    wrap_boot_count,       \* the u32 in the cell BOOT_COUNT, as two u16 halves
    wrap_overflow_checks,  \* whether the build traps on integer overflow
    wrap_boots,    \* history: the number of times main was entered
    \* --- the messages update_task receives from the broker (update_task.rs)
    cmd_pc,        \* "idle" | "select" | "clear"
    cmd_event,     \* history: the last message received
    cmd_signals,   \* history: the values signalled on ENABLE_PUMP, in order
    cmd_clears,    \* history: the number of empty retained publishes made
    cmd_echoes,    \* the empty messages the broker has yet to deliver back
    cmd_received   \* history: the number of messages received

avgVars == <<avg_pc, avg_width, avg_input, avg_samples, avg_result>>

acqVars == <<acq_pc, acq_i, air_humidity_samples, air_temperature_samples,
             soil_moisture_samples, battery_voltage_samples, water_level_samples,
             moisture_power_pin, water_level_power_pin, acq_sensor_data, hw,
             battery_adc_log, acq_dht_result>>

waitVars == <<wait_pc, wait_level, wait_count, wait_polls, wait_result>>

dhtVars == <<dht_pc, dht_data, dht_i, dht_result, dht_frame, dht_line_ok,
             dht_waits, dht_gpio_failed, waitVars>>

rtcCellVars == <<rtc_cell, rtc_written, rtc_op, rtc_prev_op>>

rtcVars == <<BOOT_COUNT, DISCOVERY_MESSAGES_SENT, rtcCellVars>>

sysVars == <<main_pc, boots, boot_origin, main_log, CHANNEL, ENABLE_PUMP, sensor_pc, sensor_data,
             batches, update_pc, upd_sensor_data, upd_i, upd_signals, relay_pc, pump_pin,
             pump_origin, relay_taken, wire>>

domVars == <<dom_pc, dom_value, dom_moisture, dom_raw_level, dom_water>>

relVars == <<rel_signalled, rel_signals, rel_in_run, rel_log, rel_runs>>

trigVars == <<trigger_log>>

awakeVars == <<awake_ms, awake_window, sensor_timer_ms>>

clockVars == <<clk_pc, clk_now, clk_period, clk_then, clk_wait>>

wrapVars == <<wrap_pc, wrap_boot_count, wrap_overflow_checks, wrap_boots>>

cmdVars == <<cmd_pc, cmd_event, cmd_signals, cmd_clears, cmd_echoes, cmd_received>>

vars == <<avgVars, domVars, acqVars, dhtVars, rtcVars, sysVars, relVars, trigVars,
         awakeVars, clockVars, wrapVars, cmdVars>>

(***************************************************************************)
(* Bounds of the model.                                                    *)
(***************************************************************************)
\* longest slice passed to calculate_average in the aggregator specification
MaxSamples == 5

\* boots of one behaviour of the system specification
MaxBoots == 2

\* batches sensor_task builds between two boots
MaxBatches == 2

MaxSignals == 4

MaxChanBatches == 5

MaxTriggerBoots == 12

MaxNow == 40

MaxPeriod == 12

\* boots of the full-width boot counter specification
MaxWrapBoots == 4

\* messages update_task receives in the command specification
MaxCommands == 4

(***************************************************************************)
(* Aggregator specification: calculate_average on every slice of up to     *)
(* MaxSamples samples.                                                     *)
(***************************************************************************)
\* sample values of the two widths, with the extremes of each type
U8Samples == {0, 1, 40, 254, 255}

U16Samples == {0, 1, 4098, 65534, 65535}

SamplesOfWidth(w) == IF w = 8 THEN U8Samples ELSE U16Samples

\* all sequences over S of length 0..n
RECURSIVE SeqsUpTo(_, _)
SeqsUpTo(S, n) ==
    IF n = 0 THEN {<<>>}
    ELSE LET shorter == SeqsUpTo(S, n - 1)
         IN shorter \cup {Append(s, x) : s \in {t \in shorter : Len(t) = n - 1}, x \in S}

AvgIdle ==
    /\ avg_pc = "idle"
    /\ avg_width = 8
    /\ avg_input = <<>>
    /\ avg_samples = <<>>
    /\ avg_result = None

AvgInit ==
    /\ avg_pc = "call"
    /\ avg_width \in {8, 16}
    /\ avg_input \in SeqsUpTo(SamplesOfWidth(avg_width), MaxSamples)
    /\ avg_samples = avg_input
    /\ avg_result = None

AvgCall ==
    /\ avg_pc = "call"
    /\ avg_result' = CalculateAverage(avg_samples, avg_width)
    /\ avg_samples' = SamplesAfterAverage(avg_samples)
    /\ avg_pc' = "returned"
    /\ UNCHANGED <<avg_width, avg_input>>
    /\ UNCHANGED <<domVars, acqVars, dhtVars, rtcVars, sysVars, relVars, trigVars, awakeVars, clockVars, wrapVars, cmdVars>>

(***************************************************************************)
(* Acquisition specification: one cycle of collect_all_sensor_data, one    *)
(* action per suspension point of the sample loop.                         *)
(***************************************************************************)
\* a Measurement of the DHT11
Measurement(t, h) == [temperature |-> t, humidity |-> h]

\* Hardware in which every sensor may fail at every read.
HwAllFail ==
    [dht |-> {None, Some(Measurement(21, 40))},
     moisture |-> {None, Some(1500)},
     water |-> {None, Some(3000)},
     battery |-> {None, Some(1000), Some(4000)}]

\* Hardware in which only the battery read varies: failures, ordinary
\* voltages, the values around the charging threshold and a charging voltage.
HwBattery ==
    [dht |-> {Some(Measurement(21, 40))},
     moisture |-> {Some(1500)},
     water |-> {Some(2999)},
     battery |-> {None, Some(1000), Some(1005), Some(1008), Some(1010),
                  Some(2049), Some(2050), Some(4000)}]

\* Hardware in which only the soil moisture read answers: the ends of the
\* u16 range, a mid-range value and the values around MOISTURE_MIN and
\* MOISTURE_MAX.
HwSoil ==
    [dht |-> {None},
     moisture |-> {Some(0), Some(MOISTURE_MIN - 1), Some(MOISTURE_MIN),
                   Some(1500), Some(MOISTURE_MAX), Some(MOISTURE_MAX + 1),
                   Some(U16_MAX)},
     water |-> {None},
     battery |-> {None}]

\* Hardware in which only the DHT11 read varies: failures and two
\* measurements.
HwDht ==
    [dht |-> {None, Some(Measurement(21, 40)), Some(Measurement(22, 41))},
     moisture |-> {Some(1500)},
     water |-> {Some(3000)},
     battery |-> {Some(1000)}]

\* Hardware whose ADC2 never finishes the soil moisture conversion:
\* adc.read_oneshot answers WouldBlock at every poll of nb::block!, so the
\* read has no outcome.
HwAdcSilent ==
    [dht |-> {None, Some(Measurement(21, 40))},
     moisture |-> {},
     water |-> {None, Some(3000)},
     battery |-> {None, Some(1000)}]

\* Hardware that answers every read; the two ADC2 reads may fail.
HwAnswers ==
    [dht |-> {Some(Measurement(21, 40))},
     moisture |-> {None, Some(1500)},
     water |-> {None, Some(3000)},
     battery |-> {Some(1000)}]

AcqIdle ==
    /\ acq_pc = "idle"
    /\ acq_i = 0
    /\ air_humidity_samples = <<>>
    /\ air_temperature_samples = <<>>
    /\ soil_moisture_samples = <<>>
    /\ battery_voltage_samples = <<>>
    /\ water_level_samples = <<>>
    /\ moisture_power_pin = FALSE
    /\ water_level_power_pin = FALSE
    /\ acq_sensor_data = EmptySensorData
    /\ hw = HwBattery
    /\ battery_adc_log = <<>>
    /\ acq_dht_result = None

\* entry of collect_all_sensor_data: empty vectors, rails low (initialize_hardware)
AcqInits(hws) ==
    /\ acq_pc = "dht"
    /\ acq_i = 0
    /\ air_humidity_samples = <<>>
    /\ air_temperature_samples = <<>>
    /\ soil_moisture_samples = <<>>
    /\ battery_voltage_samples = <<>>
    /\ water_level_samples = <<>>
    /\ moisture_power_pin = FALSE
    /\ water_level_power_pin = FALSE
    /\ acq_sensor_data = EmptySensorData
    /\ hw \in hws
    /\ battery_adc_log = <<>>
    /\ acq_dht_result = None

AcqInit == AcqInits({HwAllFail, HwBattery, HwSoil, HwDht})

\* if let Some(messurement) = read_dht11_sensor(..).await { samples.push(..) }
\* mutant: a failed read empties the vector
PushIfSome_ClearOnNone(samples, result, x) ==
    IF result.some THEN PushSample(samples, x) ELSE <<>>

PushIfSome(samples, result, x) ==
    IF result.some THEN PushSample(samples, x) ELSE samples

\* read_dht11_sensor: the warm-up timer has elapsed, the sensor is read
AcqReadDht ==
    /\ acq_pc = "dht"
    /\ \E m \in hw.dht :
        /\ acq_dht_result' = m
        /\ air_temperature_samples' =
               PushIfSome(air_temperature_samples, m, m.v.temperature)
        /\ air_humidity_samples' =
               PushIfSome(air_humidity_samples, m, m.v.humidity)
    /\ acq_pc' = "moisture_on"
    /\ UNCHANGED <<acq_i, soil_moisture_samples, battery_voltage_samples,
                   water_level_samples, moisture_power_pin, water_level_power_pin,
                   acq_sensor_data, hw, battery_adc_log>>
    /\ UNCHANGED <<avgVars, domVars, dhtVars, rtcVars, sysVars, relVars, trigVars, awakeVars, clockVars, wrapVars, cmdVars>>

\* read_moisture_sensor, read_water_level_sensor: power_pin.set_low() follows
\* sample_adc_with_warmup whatever it returned
\* mutant: a failed ADC read leaves the function before set_low
RailAfterRead_HighOnError(result) == ~result.some

RailAfterRead(result) == FALSE

\* read_moisture_sensor up to the warm-up timer: the rail goes high
AcqMoisturePowerOn ==
    /\ acq_pc = "moisture_on"
    /\ moisture_power_pin' = TRUE
    /\ acq_pc' = "moisture_adc"
    /\ UNCHANGED <<acq_i, air_humidity_samples, air_temperature_samples,
                   soil_moisture_samples, battery_voltage_samples,
                   water_level_samples, water_level_power_pin, acq_sensor_data,
                   hw, battery_adc_log,
                   acq_dht_result>>
    /\ UNCHANGED <<avgVars, domVars, dhtVars, rtcVars, sysVars, relVars, trigVars, awakeVars, clockVars, wrapVars, cmdVars>>

\* read_moisture_sensor after the timer: ADC read, rail low, push
AcqMoistureRead ==
    /\ acq_pc = "moisture_adc"
    /\ \E r \in hw.moisture :
        /\ soil_moisture_samples' =
               IF r.some THEN PushSample(soil_moisture_samples, r.v)
               ELSE soil_moisture_samples
        /\ moisture_power_pin' = RailAfterRead(r)
    /\ acq_pc' = "water_on"
    /\ UNCHANGED <<acq_i, air_humidity_samples, air_temperature_samples,
                   battery_voltage_samples, water_level_samples,
                   water_level_power_pin, acq_sensor_data, hw, battery_adc_log,
                   acq_dht_result>>
    /\ UNCHANGED <<avgVars, domVars, dhtVars, rtcVars, sysVars, relVars, trigVars, awakeVars, clockVars, wrapVars, cmdVars>>

\* read_water_level_sensor up to the warm-up timer: the rail goes high
AcqWaterPowerOn ==
    /\ acq_pc = "water_on"
    /\ water_level_power_pin' = TRUE
    /\ acq_pc' = "water_adc"
    /\ UNCHANGED <<acq_i, air_humidity_samples, air_temperature_samples,
                   soil_moisture_samples, battery_voltage_samples,
                   water_level_samples, moisture_power_pin, acq_sensor_data,
                   hw, battery_adc_log,
                   acq_dht_result>>
    /\ UNCHANGED <<avgVars, domVars, dhtVars, rtcVars, sysVars, relVars, trigVars, awakeVars, clockVars, wrapVars, cmdVars>>

\* read_water_level_sensor after the timer: ADC read, rail low, push
AcqWaterRead ==
    /\ acq_pc = "water_adc"
    /\ \E r \in hw.water :
        /\ water_level_samples' =
               IF r.some THEN PushSample(water_level_samples, r.v)
               ELSE water_level_samples
        /\ water_level_power_pin' = RailAfterRead(r)
    /\ acq_pc' = "battery"
    /\ UNCHANGED <<acq_i, air_humidity_samples, air_temperature_samples,
                   soil_moisture_samples, battery_voltage_samples,
                   moisture_power_pin, acq_sensor_data, hw, battery_adc_log,
                   acq_dht_result>>
    /\ UNCHANGED <<avgVars, domVars, dhtVars, rtcVars, sysVars, relVars, trigVars, awakeVars, clockVars, wrapVars, cmdVars>>

\* read_battery_voltage after its warm-up timer, the push, and the end of the
\* loop body
AcqBatteryRead ==
    /\ acq_pc = "battery"
    /\ \E adc \in hw.battery :
        /\ battery_adc_log' = Append(battery_adc_log, adc)
        /\ battery_voltage_samples' =
               IF ReadBatteryVoltage(adc).some
               THEN PushSample(battery_voltage_samples, ReadBatteryVoltage(adc).v)
               ELSE battery_voltage_samples
    /\ acq_i' = acq_i + 1
    /\ acq_pc' = IF acq_i + 1 < SENSOR_SAMPLE_COUNT THEN "dht" ELSE "build"
    /\ UNCHANGED <<air_humidity_samples, air_temperature_samples,
                   soil_moisture_samples, water_level_samples,
                   moisture_power_pin, water_level_power_pin, acq_sensor_data, hw,
                   acq_dht_result>>
    /\ UNCHANGED <<avgVars, domVars, dhtVars, rtcVars, sysVars, relVars, trigVars, awakeVars, clockVars, wrapVars, cmdVars>>

\* build_sensor_data on the collected vectors (each is sorted in place by its
\* calculate_average call)
AcqBuild ==
    /\ acq_pc = "build"
    /\ acq_sensor_data' =
           BuildSensorData(air_humidity_samples, air_temperature_samples,
                           soil_moisture_samples, battery_voltage_samples,
                           water_level_samples, RtcGet(BOOT_COUNT))
    /\ air_humidity_samples' = SamplesAfterAverage(air_humidity_samples)
    /\ air_temperature_samples' = SamplesAfterAverage(air_temperature_samples)
    /\ soil_moisture_samples' = SamplesAfterAverage(soil_moisture_samples)
    /\ battery_voltage_samples' = SamplesAfterAverage(battery_voltage_samples)
    /\ water_level_samples' = SamplesAfterAverage(water_level_samples)
    /\ acq_pc' = "built"
    /\ UNCHANGED <<acq_i, moisture_power_pin, water_level_power_pin, hw,
                   battery_adc_log,
                   acq_dht_result>>
    /\ UNCHANGED <<avgVars, domVars, dhtVars, rtcVars, sysVars, relVars, trigVars, awakeVars, clockVars, wrapVars, cmdVars>>

\* sensor_task: sender.send(sensor_data).await on the batch of this cycle
AcqSend ==
    /\ acq_pc = "built"
    /\ ChannelHasRoom(CHANNEL)
    /\ CHANNEL' = Append(CHANNEL, Tagged(acq_sensor_data, 1))
    /\ acq_pc' = "sent"
    /\ UNCHANGED <<acq_i, air_humidity_samples, air_temperature_samples,
                   soil_moisture_samples, battery_voltage_samples,
                   water_level_samples, moisture_power_pin,
                   water_level_power_pin, acq_sensor_data, hw, battery_adc_log,
                   acq_dht_result>>
    /\ UNCHANGED <<main_pc, boots, boot_origin, main_log, ENABLE_PUMP,
                   sensor_pc, sensor_data, batches, update_pc, upd_sensor_data,
                   upd_i, upd_signals, relay_pc, pump_pin, pump_origin,
                   relay_taken, wire>>
    /\ UNCHANGED <<avgVars, domVars, dhtVars, rtcVars, relVars, trigVars, awakeVars, clockVars, wrapVars, cmdVars>>

AcqNext ==
    \/ AcqReadDht
    \/ AcqMoisturePowerOn
    \/ AcqMoistureRead
    \/ AcqWaterPowerOn
    \/ AcqWaterRead
    \/ AcqBatteryRead
    \/ AcqBuild
    \/ AcqSend

(***************************************************************************)
(* Decoder specification: one call of Dht11::read against a sensor that    *)
(* transmits dht_frame.  The line may at every pulse stay silent past the  *)
(* timeout or fail as a GPIO; a pulse pair that ends in time encodes the   *)
(* bit of the frame (high longer than low for 1).                          *)
(***************************************************************************)
\* byte values of the transmitted frames
FrameBytes == {0, 1, 85, 255}

\* polls a pulse may last: typical pulses, the longest that is still in time
\* and the shortest that is not
Durations == {26, 50, 70, TIMEOUT_US, TIMEOUT_US + 1}

LinePulses == {LevelPulse(d) : d \in Durations} \cup {GpioFault}

PulseInTime(pulse) == pulse.kind = "level" /\ pulse.d <= TIMEOUT_US

\* the GPIO operation that fails first when read works through one of
\* set_high/set_low (gpio_fail) and then up to two pulses: the second pulse
\* is only waited for when the first ended in time
FailedGpioOp(gpio_fail, first_pulse, second_pulse) ==
    IF gpio_fail THEN "set"
    ELSE IF first_pulse.kind = "gpio" THEN "first_wait"
    ELSE IF PulseInTime(first_pulse) /\ second_pulse.kind = "gpio" THEN "second_wait"
    ELSE "none"

\* frames with a correct checksum and frames whose checksum is off by one
Frames ==
    {<<b0, b1, b2, b3, (b0 + b1 + b2 + b3 + e) % 256>> :
        b0 \in FrameBytes, b1 \in FrameBytes, b2 \in FrameBytes,
        b3 \in FrameBytes, e \in {0, 1}}

\* bit i (0-based) of the transmission: MSB first
FrameBit(frame, i) == (frame[(i \div 8) + 1] \div (2 ^ (7 - (i % 8)))) % 2 = 1

\* no call of wait_for_pulse is modelled poll by poll
WaitIdle ==
    /\ wait_pc = "idle"
    /\ wait_level = FALSE
    /\ wait_count = 0
    /\ wait_polls = 0
    /\ wait_result = Err("None")

\* no call of read is modelled
ReadIdle ==
    /\ dht_pc = "idle"
    /\ dht_data = <<0, 0, 0, 0, 0>>
    /\ dht_i = 0
    /\ dht_result = ReadResult(Err("None"))
    /\ dht_frame = <<0, 0, 0, 0, 0>>
    /\ dht_line_ok = TRUE
    /\ dht_waits = 0
    /\ dht_gpio_failed = "none"

DhtIdle == ReadIdle /\ WaitIdle

DhtInit ==
    /\ dht_pc = "handshake"
    /\ dht_data = <<0, 0, 0, 0, 0>>
    /\ dht_i = 0
    /\ dht_result = ReadResult(Err("None"))
    /\ dht_frame \in Frames
    /\ dht_line_ok = TRUE
    /\ dht_waits = 0
    /\ dht_gpio_failed = "none"
    /\ WaitIdle

\* wait_for_pulse(level, delay) is entered: let mut count = 0
WaitInit ==
    /\ wait_pc = "poll"
    /\ wait_level \in BOOLEAN
    /\ wait_count = 0
    /\ wait_polls = 0
    /\ wait_result = Err("None")

\* perform_handshake(delay)?
DhtHandshake ==
    /\ dht_pc = "handshake"
    /\ \E gpio_fail \in BOOLEAN, pl \in LinePulses, ph \in LinePulses :
        LET r == PerformHandshake(gpio_fail, pl, ph)
        IN /\ dht_line_ok' = (~gpio_fail /\ PulseInTime(pl) /\ PulseInTime(ph))
           /\ dht_gpio_failed' = FailedGpioOp(gpio_fail, pl, ph)
           /\ dht_waits' = dht_waits + HandshakeWaits(gpio_fail, pl, ph)
           /\ IF r.kind = "Ok"
              THEN dht_pc' = "bits" /\ dht_result' = dht_result
              ELSE dht_pc' = "done" /\ dht_result' = ReadResult(r)
    /\ UNCHANGED <<dht_data, dht_i, dht_frame, waitVars>>
    /\ UNCHANGED <<avgVars, domVars, acqVars, rtcVars, sysVars, relVars, trigVars, awakeVars, clockVars, wrapVars, cmdVars>>

\* one iteration of  for i in 0..40
DhtReadBit ==
    /\ dht_pc = "bits"
    /\ dht_i < 40
    /\ \E pl \in LinePulses, ph \in LinePulses :
        /\ (PulseInTime(pl) /\ PulseInTime(ph)) =>
               ((ph.d > pl.d) <=> FrameBit(dht_frame, dht_i))
        /\ LET r == ReadBit(pl, ph)
           IN /\ dht_line_ok' = (dht_line_ok /\ PulseInTime(pl) /\ PulseInTime(ph))
              /\ dht_gpio_failed' = FailedGpioOp(FALSE, pl, ph)
              /\ dht_waits' = dht_waits + ReadBitWaits(pl, ph)
              /\ IF r.kind = "Ok"
                 THEN /\ dht_data' = ShiftInBit(dht_data, dht_i, r.v)
                      /\ dht_i' = dht_i + 1
                      /\ dht_pc' = IF dht_i + 1 < 40 THEN "bits" ELSE "finish"
                      /\ dht_result' = dht_result
                 ELSE /\ dht_data' = ShiftInBit(dht_data, dht_i, FALSE)
                      /\ dht_i' = dht_i
                      /\ dht_pc' = "done"
                      /\ dht_result' = ReadResult(r)
    /\ UNCHANGED <<dht_frame, waitVars>>
    /\ UNCHANGED <<avgVars, domVars, acqVars, rtcVars, sysVars, relVars, trigVars, awakeVars, clockVars, wrapVars, cmdVars>>

\* wait_for_pulse(true, delay)?, the CRC check and the return
DhtFinish ==
    /\ dht_pc = "finish"
    /\ \E idle \in LinePulses :
        /\ dht_line_ok' = (dht_line_ok /\ PulseInTime(idle))
        /\ dht_gpio_failed' = FailedGpioOp(FALSE, idle, idle)
        /\ dht_result' = ReadResult(FinishRead(dht_data, idle))
    /\ dht_waits' = dht_waits + 1
    /\ dht_pc' = "done"
    /\ UNCHANGED <<dht_data, dht_i, dht_frame, waitVars>>
    /\ UNCHANGED <<avgVars, domVars, acqVars, rtcVars, sysVars, relVars, trigVars, awakeVars, clockVars, wrapVars, cmdVars>>

DhtNext ==
    \/ DhtHandshake
    \/ DhtReadBit
    \/ DhtFinish

\* one iteration of the loop of wait_for_pulse: gpio.is_high() fails, shows
\* the awaited level, or shows the other level; then count += 1 and the
\* timeout test
WaitPoll ==
    /\ wait_pc = "poll"
    /\ wait_polls' = wait_polls + 1
    /\ \E is_high \in {"Err", "awaited", "other"} :
         IF is_high = "Err"
         THEN /\ wait_pc' = "done"
              /\ wait_result' = Err("Gpio")
              /\ UNCHANGED wait_count
         ELSE IF is_high = "awaited"
         THEN /\ wait_pc' = "done"
              /\ wait_result' = Ok(wait_count)
              /\ UNCHANGED wait_count
         ELSE /\ wait_count' = (wait_count + 1) % U16_MOD
              /\ IF TimedOut((wait_count + 1) % U16_MOD)
                 THEN wait_pc' = "done" /\ wait_result' = Err("Timeout")
                 ELSE UNCHANGED <<wait_pc, wait_result>>
    /\ UNCHANGED <<wait_level, dht_pc, dht_data, dht_i, dht_result, dht_frame,
                   dht_line_ok, dht_waits, dht_gpio_failed>>
    /\ UNCHANGED <<avgVars, domVars, acqVars, rtcVars, sysVars, relVars, trigVars, awakeVars, clockVars, wrapVars, cmdVars>>

\* one call of read, or one call of wait_for_pulse poll by poll
DhtPollNext ==
    \/ DhtNext
    \/ WaitPoll

(***************************************************************************)
(* System specification: main, sensor_task, update_task and relay_task     *)
(* over CHANNEL and ENABLE_PUMP.  The tasks run on one cooperative         *)
(* executor, so a step is what a task does between two awaits.  Time is    *)
(* not modelled: a timer may expire at any step.                           *)
(***************************************************************************)
\* history: who wrote a value of ENABLE_PUMP
NoOrigin == [kind |-> "none", sd |-> NoBatch, cmd |-> ""]

BatchOrigin(sd) == [kind |-> "batch", sd |-> sd, cmd |-> ""]

RemoteOrigin(text) == [kind |-> "remote", sd |-> NoBatch, cmd |-> text]

\* what one acquisition cycle can leave in the sample vectors: the DHT11
\* answers (humidity and temperature together) or not, the reservoir probe
\* fails, reads below or at the threshold, the battery reads pass the filter
\* or not
SysAir == {[hum |-> <<>>, temp |-> <<>>],
           [hum |-> <<40, 41, 42>>, temp |-> <<21, 21, 22>>]}

SysSoil == <<1500, 1500, 1500>>

SysWater == {<<>>,
             <<WATER_LEVEL_THRESHOLD - 1, WATER_LEVEL_THRESHOLD - 1, WATER_LEVEL_THRESHOLD - 1>>,
             <<WATER_LEVEL_THRESHOLD, WATER_LEVEL_THRESHOLD, WATER_LEVEL_THRESHOLD>>}

SysBattery == {<<>>, <<2000, 2010, 2020>>}

\* the boot counts found in RTC memory at the first boot of a behaviour: the
\* next boot is one that does not trigger the pump, or one that does
SysBootCounts == {0, PUMP_TRIGGER_INTERVAL - 1}

\* what client.poll() can return
MqttPayloads == {Utf8("OPEN"), Utf8("CLOSE"), Utf8(""), NotUtf8}

MqttEvents ==
    {[kind |-> "Publish", topic |-> t, payload |-> p] :
         t \in {PumpSetTopic, OtherTopic}, p \in MqttPayloads}
    \cup {[kind |-> "Other", topic |-> "", payload |-> Utf8("")],
          [kind |-> "Err", topic |-> "", payload |-> Utf8("")]}

\* the histories of the relay specification before anything was signalled
\* no message of the broker is modelled on its own
CmdIdle ==
    /\ cmd_pc = "idle"
    /\ cmd_event = [topic |-> "", payload |-> Utf8("")]
    /\ cmd_signals = <<>>
    /\ cmd_clears = 0
    /\ cmd_echoes = 0
    /\ cmd_received = 0

\* the boot counter is not modelled at its full width
WrapIdle ==
    /\ wrap_pc = "idle"
    /\ wrap_boot_count = [hi |-> 0, lo |-> 0]
    /\ wrap_overflow_checks = FALSE
    /\ wrap_boots = 0

ClockIdle ==
    /\ clk_pc = "idle"
    /\ clk_now = 0
    /\ clk_period = 0
    /\ clk_then = 0
    /\ clk_wait = 0

AwakeIdle ==
    /\ awake_ms = 0
    /\ awake_window = 0
    /\ sensor_timer_ms = 0

RelIdle ==
    /\ rel_signalled = <<>>
    /\ rel_signals = 0
    /\ rel_in_run = 0
    /\ rel_log = <<>>
    /\ rel_runs = 0

SysIdle ==
    /\ main_pc = "idle"
    /\ boots = 0
    /\ boot_origin = PowerOn
    /\ main_log = <<>>
    /\ CHANNEL = <<>>
    /\ ENABLE_PUMP = None
    /\ sensor_pc = "off"
    /\ sensor_data = NoBatch
    /\ batches = 0
    /\ update_pc = "off"
    /\ upd_sensor_data = NoBatch
    /\ upd_i = 0
    /\ upd_signals = 0
    /\ relay_pc = "off"
    /\ pump_pin = FALSE
    /\ pump_origin = NoOrigin
    /\ relay_taken = [v |-> FALSE, origin |-> NoOrigin]
    /\ wire = <<>>
    /\ RelIdle
    /\ trigger_log = <<>>
    /\ AwakeIdle

SysInit ==
    /\ main_pc = "boot"
    /\ boots = 0
    /\ boot_origin = PowerOn
    /\ main_log = <<>>
    /\ BOOT_COUNT \in SysBootCounts
    /\ DISCOVERY_MESSAGES_SENT \in BOOLEAN
    /\ CHANNEL = <<>>
    /\ ENABLE_PUMP = None
    /\ sensor_pc = "off"
    /\ sensor_data = NoBatch
    /\ batches = 0
    /\ update_pc = "off"
    /\ upd_sensor_data = NoBatch
    /\ upd_i = 0
    /\ upd_signals = 0
    /\ relay_pc = "off"
    /\ pump_pin = FALSE
    /\ pump_origin = NoOrigin
    /\ relay_taken = [v |-> FALSE, origin |-> NoOrigin]
    /\ wire = <<>>
    /\ RelIdle
    /\ trigger_log = <<>>

\* main: the chip comes out of reset (power-on, wake-up or software_reset)
\* with its RAM statics initialised and the relay pin low, and main counts
\* the boot
MainBoots(limit) ==
    /\ main_pc = "boot"
    /\ boots < limit
    /\ boots' = boots + 1
    /\ BOOT_COUNT' = RtcSet(BOOT_COUNT, NextBootCount(RtcGet(BOOT_COUNT)))
    /\ main_pc' = "init"
    /\ main_log' = <<"boot_count">>
    /\ CHANNEL' = <<>>
    /\ ENABLE_PUMP' = None
    /\ sensor_pc' = "off"
    /\ sensor_data' = NoBatch
    /\ batches' = 0
    /\ update_pc' = "off"
    /\ upd_sensor_data' = NoBatch
    /\ upd_i' = 0
    /\ upd_signals' = 0
    /\ relay_pc' = "off"
    /\ pump_pin' = FALSE
    /\ pump_origin' = NoOrigin
    /\ relay_taken' = [v |-> FALSE, origin |-> NoOrigin]
    /\ wire' = <<>>
    /\ UNCHANGED <<boot_origin, DISCOVERY_MESSAGES_SENT, rtcCellVars>>
    /\ UNCHANGED <<avgVars, domVars, acqVars, dhtVars, relVars, trigVars, awakeVars, clockVars, wrapVars, cmdVars>>

MainBoot == MainBoots(MaxBoots)

\* main_fallible up to the awake timer: Wi-Fi and display come up and the
\* three tasks are spawned
MainFallibleOk ==
    /\ main_pc = "init"
    /\ main_pc' = "awake"
    /\ boot_origin' = Initialized
    /\ main_log' = main_log \o MainFallibleSteps
    /\ update_pc' = "connect"
    /\ sensor_pc' = "collect"
    /\ relay_pc' = "start"
    /\ UNCHANGED <<boots, CHANNEL, ENABLE_PUMP, sensor_data, batches,
                   upd_sensor_data, upd_i, upd_signals, pump_pin, pump_origin, relay_taken,
                   wire>>
    /\ UNCHANGED <<avgVars, domVars, acqVars, dhtVars, rtcVars, relVars, trigVars, awakeVars, clockVars, wrapVars, cmdVars>>

\* main_fallible returns Err at one of its ? operators and main calls
\* software_reset; the tasks spawned are those whose spawn precedes the step
MainFallibleErr ==
    /\ main_pc = "init"
    /\ \E step \in 1..Len(MainFallibleSteps) :
           /\ CanFail(MainFallibleSteps[step])
           /\ boot_origin' = SoftwareReset(MainFallibleSteps[step])
           /\ main_log' = main_log \o SubSeq(MainFallibleSteps, 1, step)
                                    \o <<"software_reset">>
           /\ update_pc' = IF SpawnedBefore(step, "spawn_update") THEN "connect"
                           ELSE update_pc
           /\ sensor_pc' = IF SpawnedBefore(step, "spawn_sensor") THEN "collect"
                           ELSE sensor_pc
           /\ relay_pc' = IF SpawnedBefore(step, "spawn_relay") THEN "start"
                          ELSE relay_pc
    /\ main_pc' = "boot"
    /\ UNCHANGED <<boots, CHANNEL, ENABLE_PUMP, sensor_data, batches,
                   upd_sensor_data, upd_i, upd_signals, pump_pin, pump_origin,
                   relay_taken, wire>>
    /\ UNCHANGED <<avgVars, domVars, acqVars, dhtVars, rtcVars, relVars, trigVars, awakeVars, clockVars, wrapVars, cmdVars>>

\* main_fallible: the awake timer expires and enter_deep halts every task
MainSleep ==
    /\ main_pc = "awake"
    /\ main_pc' = "sleep"
    /\ main_log' = main_log \o SleepSteps
    /\ update_pc' = "off"
    /\ sensor_pc' = "off"
    /\ relay_pc' = "off"
    /\ UNCHANGED <<boots, boot_origin, CHANNEL, ENABLE_PUMP, sensor_data, batches,
                   upd_sensor_data, upd_i, upd_signals, pump_pin, pump_origin, relay_taken,
                   wire>>
    /\ UNCHANGED <<avgVars, domVars, acqVars, dhtVars, rtcVars, relVars, trigVars, awakeVars, clockVars, wrapVars, cmdVars>>

\* the deep-sleep timer or the wake-up button restarts the chip
MainWake ==
    /\ main_pc = "sleep"
    /\ main_pc' = "boot"
    /\ boot_origin' = Wake
    /\ UNCHANGED <<boots, main_log, CHANNEL, ENABLE_PUMP, sensor_pc, sensor_data, batches,
                   update_pc, upd_sensor_data, upd_i, upd_signals, relay_pc, pump_pin,
                   pump_origin, relay_taken, wire>>
    /\ UNCHANGED <<avgVars, domVars, acqVars, dhtVars, rtcVars, relVars, trigVars, awakeVars, clockVars, wrapVars, cmdVars>>

\* sensor_task: collect_all_sensor_data returns the batch built from the
\* sample vectors of this cycle
SensorBuilds(limit, airs, waters, batts) ==
    /\ sensor_pc = "collect"
    /\ batches < limit
    /\ \E air \in airs, water \in waters, batt \in batts :
           sensor_data' = Tagged(BuildSensorData(air.hum, air.temp, SysSoil, batt,
                                                 water, RtcGet(BOOT_COUNT)),
                                 batches + 1)
    /\ batches' = batches + 1
    /\ sensor_pc' = "send"
    /\ UNCHANGED <<main_pc, boots, boot_origin, main_log, CHANNEL, ENABLE_PUMP, update_pc,
                   upd_sensor_data, upd_i, upd_signals, relay_pc, pump_pin,
                   pump_origin, relay_taken, wire>>
    /\ UNCHANGED <<avgVars, domVars, acqVars, dhtVars, rtcVars, relVars, awakeVars, clockVars, wrapVars, cmdVars>>

SensorCollects(limit, airs, waters, batts) ==
    /\ SensorBuilds(limit, airs, waters, batts)
    /\ UNCHANGED trigVars

SensorCollect == SensorCollects(MaxBatches, SysAir, SysWater, SysBattery)

\* sensor_task: sender.send(sensor_data).await completes when CHANNEL has room
SensorSends ==
    /\ sensor_pc = "send"
    /\ ChannelHasRoom(CHANNEL)
    /\ CHANNEL' = Append(CHANNEL, sensor_data)
    /\ sensor_pc' = "timer"
    /\ UNCHANGED <<main_pc, boots, boot_origin, main_log, ENABLE_PUMP, sensor_data, batches, update_pc,
                   upd_sensor_data, upd_i, upd_signals, relay_pc, pump_pin, pump_origin,
                   relay_taken, wire>>
    /\ UNCHANGED <<avgVars, domVars, acqVars, dhtVars, rtcVars, relVars, trigVars, clockVars, wrapVars, cmdVars>>

SensorSend ==
    /\ SensorSends
    /\ UNCHANGED awakeVars

\* sensor_task: the sampling period is over
SensorTimer ==
    /\ sensor_pc = "timer"
    /\ sensor_pc' = "collect"
    /\ UNCHANGED <<main_pc, boots, boot_origin, main_log, CHANNEL, ENABLE_PUMP, sensor_data, batches,
                   update_pc, upd_sensor_data, upd_i, upd_signals, relay_pc, pump_pin,
                   pump_origin, relay_taken, wire>>
    /\ UNCHANGED <<avgVars, domVars, acqVars, dhtVars, rtcVars, relVars, trigVars, awakeVars, clockVars, wrapVars, cmdVars>>

\* handle_sensor_data after publish_discovery_topics returned Ok: with the
\* publish flag set, publish_sensor_data signals the pump state and starts
\* publishing; otherwise the batch goes to the display only
HandleAfterDiscovery(sd) ==
    IF ShouldPublish(sd)
    THEN /\ ENABLE_PUMP' = SignalAll(ENABLE_PUMP, PumpSignals(sd))
         /\ pump_origin' = IF Len(PumpSignals(sd)) > 0 THEN BatchOrigin(sd)
                           ELSE pump_origin
         /\ upd_signals' = Len(PumpSignals(sd))
         /\ upd_i' = 1
         /\ update_pc' = IF Len(sd.data) > 0 THEN "publish" ELSE "display"
    ELSE /\ update_pc' = "display"
         /\ upd_signals' = 0
         /\ upd_i' = 0
         /\ UNCHANGED <<ENABLE_PUMP, pump_origin>>

\* update_task: initialize_mqtt_client returns the client, or fails
UpdConnect ==
    /\ update_pc = "connect"
    /\ \E ok \in BOOLEAN : update_pc' = IF ok THEN "subscribe" ELSE "backoff"
    /\ UNCHANGED <<main_pc, boots, boot_origin, main_log, CHANNEL, ENABLE_PUMP, sensor_pc, sensor_data,
                   batches, upd_sensor_data, upd_i, upd_signals, relay_pc, pump_pin,
                   pump_origin, relay_taken, wire>>
    /\ UNCHANGED <<avgVars, domVars, acqVars, dhtVars, rtcVars, relVars, trigVars, awakeVars, clockVars, wrapVars, cmdVars>>

\* update_task: client.subscribe to the pump command topic
UpdSubscribe ==
    /\ update_pc = "subscribe"
    /\ \E ok \in BOOLEAN : update_pc' = IF ok THEN "select" ELSE "backoff"
    /\ UNCHANGED <<main_pc, boots, boot_origin, main_log, CHANNEL, ENABLE_PUMP, sensor_pc, sensor_data,
                   batches, upd_sensor_data, upd_i, upd_signals, relay_pc, pump_pin,
                   pump_origin, relay_taken, wire>>
    /\ UNCHANGED <<avgVars, domVars, acqVars, dhtVars, rtcVars, relVars, trigVars, awakeVars, clockVars, wrapVars, cmdVars>>

\* update_task: the 5 s retry delay is over
UpdBackoff ==
    /\ update_pc = "backoff"
    /\ update_pc' = "connect"
    /\ UNCHANGED <<main_pc, boots, boot_origin, main_log, CHANNEL, ENABLE_PUMP, sensor_pc, sensor_data,
                   batches, upd_sensor_data, upd_i, upd_signals, relay_pc, pump_pin,
                   pump_origin, relay_taken, wire>>
    /\ UNCHANGED <<avgVars, domVars, acqVars, dhtVars, rtcVars, relVars, trigVars, awakeVars, clockVars, wrapVars, cmdVars>>

\* update_task: select returns First, a batch from CHANNEL;
\* publish_discovery_topics returns at once when the messages were sent before
UpdReceive ==
    /\ update_pc = "select"
    /\ Len(CHANNEL) > 0
    /\ upd_sensor_data' = Head(CHANNEL)
    /\ CHANNEL' = Tail(CHANNEL)
    /\ IF RtcGet(DISCOVERY_MESSAGES_SENT)
       THEN HandleAfterDiscovery(Head(CHANNEL))
       ELSE /\ update_pc' = "discovery"
            /\ upd_signals' = 0
            /\ upd_i' = 0
            /\ UNCHANGED <<ENABLE_PUMP, pump_origin>>
    /\ UNCHANGED <<main_pc, boots, boot_origin, main_log, sensor_pc, sensor_data, batches, relay_pc,
                   pump_pin, relay_taken, wire>>
    /\ UNCHANGED <<avgVars, domVars, acqVars, dhtVars, rtcVars, relVars, trigVars, awakeVars, clockVars, wrapVars, cmdVars>>

\* publish_discovery_topics: the eight discovery messages go out and the flag
\* is set, or a publish fails and update_task reconnects
UpdDiscovery ==
    /\ update_pc = "discovery"
    /\ \E ok \in BOOLEAN :
           IF ok
           THEN /\ DISCOVERY_MESSAGES_SENT' = RtcSet(DISCOVERY_MESSAGES_SENT, TRUE)
                /\ HandleAfterDiscovery(upd_sensor_data)
           ELSE /\ update_pc' = "connect"
                /\ UNCHANGED <<DISCOVERY_MESSAGES_SENT, ENABLE_PUMP, pump_origin,
                               upd_i, upd_signals>>
    /\ UNCHANGED <<main_pc, boots, boot_origin, main_log, CHANNEL, sensor_pc, sensor_data, batches,
                   upd_sensor_data, relay_pc, pump_pin, relay_taken, wire>>
    /\ UNCHANGED <<BOOT_COUNT, rtcCellVars>>
    /\ UNCHANGED <<avgVars, domVars, acqVars, dhtVars, relVars, trigVars, awakeVars, clockVars, wrapVars, cmdVars>>

\* mutant: a failed publish puts the batch back at the head of the channel
UpdPublish_Requeue ==
    /\ update_pc = "publish"
    /\ \E ok \in BOOLEAN :
           IF ok
           THEN /\ wire' = Append(wire, [seq |-> upd_sensor_data.seq,
                                         j |-> upd_i,
                                         kind |-> upd_sensor_data.data[upd_i].kind,
                                         publish |-> upd_sensor_data.publish])
                /\ IF upd_i < Len(upd_sensor_data.data)
                   THEN update_pc' = "publish" /\ upd_i' = upd_i + 1
                   ELSE update_pc' = "display" /\ upd_i' = 0
                /\ UNCHANGED CHANNEL
           ELSE /\ update_pc' = "connect"
                /\ upd_i' = 0
                /\ CHANNEL' = IF Len(CHANNEL) < CHANNEL_CAPACITY
                              THEN <<upd_sensor_data>> \o CHANNEL
                              ELSE CHANNEL
                /\ UNCHANGED wire
    /\ UNCHANGED <<main_pc, boots, boot_origin, main_log, ENABLE_PUMP, sensor_pc, sensor_data,
                   batches, upd_sensor_data, upd_signals, relay_pc, pump_pin,
                   pump_origin, relay_taken>>
    /\ UNCHANGED <<avgVars, domVars, acqVars, dhtVars, rtcVars, relVars, trigVars, awakeVars, clockVars, wrapVars, cmdVars>>

\* publish_sensor_data: client.publish of the reading at upd_i succeeds, or
\* fails and update_task reconnects
UpdPublish ==
    /\ update_pc = "publish"
    /\ \E ok \in BOOLEAN :
           IF ok
           THEN /\ wire' = Append(wire, [seq |-> upd_sensor_data.seq,
                                         j |-> upd_i,
                                         kind |-> upd_sensor_data.data[upd_i].kind,
                                         publish |-> upd_sensor_data.publish])
                /\ IF upd_i < Len(upd_sensor_data.data)
                   THEN update_pc' = "publish" /\ upd_i' = upd_i + 1
                   ELSE update_pc' = "display" /\ upd_i' = 0
           ELSE /\ update_pc' = "connect"
                /\ upd_i' = 0
                /\ UNCHANGED wire
    /\ UNCHANGED <<main_pc, boots, boot_origin, main_log, CHANNEL, ENABLE_PUMP, sensor_pc, sensor_data,
                   batches, upd_sensor_data, upd_signals, relay_pc, pump_pin,
                   pump_origin, relay_taken>>
    /\ UNCHANGED <<avgVars, domVars, acqVars, dhtVars, rtcVars, relVars, trigVars, awakeVars, clockVars, wrapVars, cmdVars>>

\* process_display: display.write_multiline
UpdDisplayWrite ==
    /\ update_pc = "display"
    /\ \E ok \in BOOLEAN : update_pc' = IF ok THEN "display_timer" ELSE "connect"
    /\ UNCHANGED <<main_pc, boots, boot_origin, main_log, CHANNEL, ENABLE_PUMP, sensor_pc, sensor_data,
                   batches, upd_sensor_data, upd_i, upd_signals, relay_pc, pump_pin,
                   pump_origin, relay_taken, wire>>
    /\ UNCHANGED <<avgVars, domVars, acqVars, dhtVars, rtcVars, relVars, trigVars, awakeVars, clockVars, wrapVars, cmdVars>>

\* process_display: the timer expires and display.enable_powersave runs
UpdDisplayTimer ==
    /\ update_pc = "display_timer"
    /\ \E ok \in BOOLEAN : update_pc' = IF ok THEN "select" ELSE "connect"
    /\ UNCHANGED <<main_pc, boots, boot_origin, main_log, CHANNEL, ENABLE_PUMP, sensor_pc, sensor_data,
                   batches, upd_sensor_data, upd_i, upd_signals, relay_pc, pump_pin,
                   pump_origin, relay_taken, wire>>
    /\ UNCHANGED <<avgVars, domVars, acqVars, dhtVars, rtcVars, relVars, trigVars, awakeVars, clockVars, wrapVars, cmdVars>>

\* update_task: select returns Second, the result of client.poll() (receive
\* is polled first, so CHANNEL is empty)
UpdPoll ==
    /\ update_pc = "select"
    /\ Len(CHANNEL) = 0
    /\ \E ev \in MqttEvents :
           IF ev.kind = "Publish"
           THEN LET r == ProcessReceivedMqttMessage(ev.topic, ev.payload)
                IN /\ ENABLE_PUMP' = IF r.signal.some
                                     THEN SignalValue(ENABLE_PUMP, r.signal.v)
                                     ELSE ENABLE_PUMP
                   /\ pump_origin' = IF r.signal.some
                                     THEN RemoteOrigin(ev.payload.text)
                                     ELSE pump_origin
                   /\ update_pc' = IF r.action = "ClearRetained" THEN "clear"
                                   ELSE "select"
           ELSE /\ update_pc' = IF ev.kind = "Err" THEN "connect" ELSE "select"
                /\ UNCHANGED <<ENABLE_PUMP, pump_origin>>
    /\ UNCHANGED <<main_pc, boots, boot_origin, main_log, CHANNEL, sensor_pc, sensor_data, batches,
                   upd_sensor_data, upd_i, upd_signals, relay_pc, pump_pin, relay_taken,
                   wire>>
    /\ UNCHANGED <<avgVars, domVars, acqVars, dhtVars, rtcVars, relVars, trigVars, awakeVars, clockVars, wrapVars, cmdVars>>

\* update_task: MqttAction::ClearRetained publishes the empty retained message
UpdClearRetained ==
    /\ update_pc = "clear"
    /\ \E ok \in BOOLEAN : update_pc' = IF ok THEN "select" ELSE "connect"
    /\ UNCHANGED <<main_pc, boots, boot_origin, main_log, CHANNEL, ENABLE_PUMP, sensor_pc, sensor_data,
                   batches, upd_sensor_data, upd_i, upd_signals, relay_pc, pump_pin,
                   pump_origin, relay_taken, wire>>
    /\ UNCHANGED <<avgVars, domVars, acqVars, dhtVars, rtcVars, relVars, trigVars, awakeVars, clockVars, wrapVars, cmdVars>>

\* relay_task: the pin is configured as an output at Level::Low
RelayStart ==
    /\ relay_pc = "start"
    /\ pump_pin' = FALSE
    /\ relay_pc' = "wait"
    /\ UNCHANGED <<main_pc, boots, boot_origin, main_log, CHANNEL, ENABLE_PUMP, sensor_pc, sensor_data,
                   batches, update_pc, upd_sensor_data, upd_i, upd_signals, pump_origin,
                   relay_taken, wire>>
    /\ UNCHANGED <<avgVars, domVars, acqVars, dhtVars, rtcVars, relVars, trigVars, awakeVars, clockVars, wrapVars, cmdVars>>

\* relay_task: ENABLE_PUMP.wait() takes the pending value; true sets the pin
\* high and starts the PUMP_INTERVAL timer
RelayTakes ==
    /\ relay_pc = "wait"
    /\ ENABLE_PUMP.some
    /\ ENABLE_PUMP' = None
    /\ pump_origin' = NoOrigin
    /\ relay_taken' = [v |-> ENABLE_PUMP.v, origin |-> pump_origin]
    /\ IF StartsRun(ENABLE_PUMP.v)
       THEN pump_pin' = TRUE /\ relay_pc' = "run"
       ELSE UNCHANGED <<pump_pin, relay_pc>>
    /\ UNCHANGED <<main_pc, boots, boot_origin, main_log, CHANNEL, sensor_pc, sensor_data, batches,
                   update_pc, upd_sensor_data, upd_i, upd_signals, wire>>
    /\ UNCHANGED <<avgVars, domVars, acqVars, dhtVars, rtcVars, trigVars, awakeVars, clockVars, wrapVars, cmdVars>>

RelayWait ==
    /\ RelayTakes
    /\ UNCHANGED relVars

\* relay_task: PUMP_INTERVAL is over and the pin goes low
RelayTimer ==
    /\ relay_pc = "run"
    /\ pump_pin' = FALSE
    /\ relay_pc' = "wait"
    /\ UNCHANGED <<main_pc, boots, boot_origin, main_log, CHANNEL, ENABLE_PUMP, sensor_pc, sensor_data,
                   batches, update_pc, upd_sensor_data, upd_i, upd_signals, pump_origin,
                   relay_taken, wire>>
    /\ UNCHANGED <<avgVars, domVars, acqVars, dhtVars, rtcVars, relVars, trigVars, awakeVars, clockVars, wrapVars, cmdVars>>

Next ==
    \/ MainBoot
    \/ MainFallibleOk
    \/ MainFallibleErr
    \/ MainSleep
    \/ MainWake
    \/ SensorCollect
    \/ SensorSend
    \/ SensorTimer
    \/ UpdConnect
    \/ UpdSubscribe
    \/ UpdBackoff
    \/ UpdReceive
    \/ UpdDiscovery
    \/ UpdPublish
    \/ UpdDisplayWrite
    \/ UpdDisplayTimer
    \/ UpdPoll
    \/ UpdClearRetained
    \/ RelayStart
    \/ RelayWait
    \/ RelayTimer

(***************************************************************************)
(* Cell specification: main, sensor_task and update_task call get and set  *)
(* on one RtcCell in any order.                                            *)
(***************************************************************************)
RtcTasks == {"main", "sensor_task", "update_task"}

\* the values stored in the cell
RtcValues == {0, 1, 2}

NoRtcOp == [op |-> "none", task |-> "none", v |-> 0]

RtcIdle ==
    /\ rtc_cell = 0
    /\ rtc_written = 0
    /\ rtc_op = NoRtcOp
    /\ rtc_prev_op = NoRtcOp

\* RtcCell::new(value)
RtcInit ==
    /\ rtc_cell \in RtcValues
    /\ rtc_written = rtc_cell
    /\ rtc_op = NoRtcOp
    /\ rtc_prev_op = NoRtcOp

\* a task calls get()
RtcCellGet ==
    /\ \E t \in RtcTasks :
           rtc_op' = [op |-> "get", task |-> t, v |-> RtcGet(rtc_cell)]
    /\ rtc_prev_op' = rtc_op
    /\ UNCHANGED <<rtc_cell, rtc_written, BOOT_COUNT, DISCOVERY_MESSAGES_SENT>>
    /\ UNCHANGED <<avgVars, domVars, acqVars, dhtVars, sysVars, relVars, trigVars, awakeVars, clockVars, wrapVars, cmdVars>>

\* a task calls set(value)
RtcCellSet ==
    /\ \E t \in RtcTasks, value \in RtcValues :
           /\ rtc_cell' = RtcSet(rtc_cell, value)
           /\ rtc_written' = value
           /\ rtc_op' = [op |-> "set", task |-> t, v |-> value]
    /\ rtc_prev_op' = rtc_op
    /\ UNCHANGED <<BOOT_COUNT, DISCOVERY_MESSAGES_SENT>>
    /\ UNCHANGED <<avgVars, domVars, acqVars, dhtVars, sysVars, relVars, trigVars, awakeVars, clockVars, wrapVars, cmdVars>>

RtcNext ==
    \/ RtcCellGet
    \/ RtcCellSet

(***************************************************************************)
(* Conversion specification: the conversions of domain.rs applied to every *)
(* u16 value.                                                              *)
(***************************************************************************)
DomIdle ==
    /\ dom_pc = "idle"
    /\ dom_value = 0
    /\ dom_moisture = "none"
    /\ dom_raw_level = 0
    /\ dom_water = "none"

DomInit ==
    /\ dom_pc = "call"
    /\ dom_value \in 0..U16_MAX
    /\ dom_moisture = "none"
    /\ dom_raw_level = 0
    /\ dom_water = "none"

\* value.into() for MoistureLevel, SoilMoistureRawLevel and WaterLevel
DomConvert ==
    /\ dom_pc = "call"
    /\ dom_moisture' = MoistureLevelFrom(dom_value)
    /\ dom_raw_level' = SoilMoistureRawLevelFrom(dom_value)
    /\ dom_water' = WaterLevelFrom(dom_value)
    /\ dom_pc' = "returned"
    /\ UNCHANGED dom_value
    /\ UNCHANGED <<avgVars, acqVars, dhtVars, rtcVars, sysVars, relVars, trigVars, awakeVars, clockVars, wrapVars, cmdVars>>

DomNext == DomConvert

(***************************************************************************)
(* Relay specification: relay_task on its own, with update_pump_state      *)
(* called with any value at any moment (by handle_sensor_data or by a      *)
(* remote command), while the controller stays awake.                      *)
(***************************************************************************)
RelayInit ==
    /\ main_pc = "awake"
    /\ boots = 1
    /\ boot_origin = Initialized
    /\ main_log = <<"boot_count">> \o MainFallibleSteps
    /\ CHANNEL = <<>>
    /\ ENABLE_PUMP = None
    /\ sensor_pc = "off"
    /\ sensor_data = NoBatch
    /\ batches = 0
    /\ update_pc = "off"
    /\ upd_sensor_data = NoBatch
    /\ upd_i = 0
    /\ upd_signals = 0
    /\ relay_pc = "start"
    /\ pump_pin = FALSE
    /\ pump_origin = NoOrigin
    /\ relay_taken = [v |-> FALSE, origin |-> NoOrigin]
    /\ wire = <<>>
    /\ RelIdle
    /\ trigger_log = <<>>
    /\ AwakeIdle
    /\ ClockIdle /\ WrapIdle /\ CmdIdle

\* update_pump_state(state): ENABLE_PUMP.signal(state), whatever relay_task
\* is doing
RelaySignal ==
    /\ rel_signals < MaxSignals
    /\ \E state \in BOOLEAN :
           /\ ENABLE_PUMP' = SignalValue(ENABLE_PUMP, state)
           /\ rel_signalled' = Append(rel_signalled, state)
    /\ rel_signals' = rel_signals + 1
    /\ rel_in_run' = rel_in_run + (IF relay_pc = "run" THEN 1 ELSE 0)
    /\ UNCHANGED <<rel_log, rel_runs>>
    /\ UNCHANGED <<main_pc, boots, boot_origin, main_log, CHANNEL, sensor_pc, sensor_data, batches,
                   update_pc, upd_sensor_data, upd_i, upd_signals, relay_pc,
                   pump_pin, pump_origin, relay_taken, wire>>
    /\ UNCHANGED <<avgVars, domVars, acqVars, dhtVars, rtcVars, trigVars, awakeVars, clockVars, wrapVars, cmdVars>>

\* relay_task: ENABLE_PUMP.wait() returns, with the histories kept
RelayWaitLogged ==
    /\ RelayTakes
    /\ rel_log' = Append(rel_log, [v |-> ENABLE_PUMP.v, pending |-> rel_signalled])
    /\ rel_signalled' = <<>>
    /\ rel_runs' = rel_runs + (IF pump_pin' /\ ~pump_pin THEN 1 ELSE 0)
    /\ UNCHANGED <<rel_signals, rel_in_run>>

RelayNext ==
    \/ RelayStart
    \/ RelaySignal
    \/ RelayWaitLogged
    \/ RelayTimer

(***************************************************************************)
(* Channel specification: sensor_task and update_task on the two ends of   *)
(* CHANNEL while the controller stays awake, with enough acquisition       *)
(* cycles to fill the channel while update_task is busy or reconnecting.   *)
(***************************************************************************)
ChanInit ==
    /\ main_pc = "awake"
    /\ boots = 1
    /\ boot_origin = Initialized
    /\ main_log = <<"boot_count">> \o MainFallibleSteps
    /\ CHANNEL = <<>>
    /\ ENABLE_PUMP = None
    /\ sensor_pc = "collect"
    /\ sensor_data = NoBatch
    /\ batches = 0
    /\ update_pc = "connect"
    /\ upd_sensor_data = NoBatch
    /\ upd_i = 0
    /\ upd_signals = 0
    /\ relay_pc = "off"
    /\ pump_pin = FALSE
    /\ pump_origin = NoOrigin
    /\ relay_taken = [v |-> FALSE, origin |-> NoOrigin]
    /\ wire = <<>>
    /\ RelIdle
    /\ trigger_log = <<>>
    /\ AwakeIdle
    /\ ClockIdle /\ WrapIdle /\ CmdIdle

\* sensor_task: collect_all_sensor_data, here with the battery read alone
\* deciding what the batch holds
ChanCollect ==
    SensorCollects(MaxChanBatches, {[hum |-> <<>>, temp |-> <<>>]}, {<<>>},
                   SysBattery)

ChanNext ==
    \/ ChanCollect
    \/ SensorSend
    \/ SensorTimer
    \/ UpdConnect
    \/ UpdSubscribe
    \/ UpdBackoff
    \/ UpdReceive
    \/ UpdDiscovery
    \/ UpdPublish
    \/ UpdDisplayWrite
    \/ UpdDisplayTimer
    \/ UpdPoll
    \/ UpdClearRetained

(***************************************************************************)
(* Discovery specification: main, sensor_task and update_task over the     *)
(* wake cycles, with publish_discovery_topics taken one publication at a   *)
(* time and each discovery message noted on the wire.                      *)
(***************************************************************************)
\* publish_discovery_topics: Sensor::iter() in declaration order, then the pump
DiscoveryTopics ==
    <<"WaterLevel", "AirTemperature", "AirHumidity", "SoilMoisture",
      "BatteryVoltage", "SoilMoistureRaw", "PumpTrigger", "pump">>

\* whether DISCOVERY_MESSAGES_SENT.set(true) follows the publication at i
\* mutant: the flag is set after the first publication
DiscoveryDone_First(i) == i >= 1

DiscoveryDone(i) == i = Len(DiscoveryTopics)

\* publish_discovery_topics, with the flag found false: the next discovery
\* message is published, and after the last one the flag is set and
\* handle_sensor_data goes on; or the publish fails and update_task reconnects
UpdDiscoveryStep ==
    /\ update_pc = "discovery"
    /\ \E ok \in BOOLEAN :
           IF ok
           THEN /\ wire' = Append(wire, [seq |-> upd_sensor_data.seq,
                                         j |-> upd_i + 1,
                                         kind |-> "discovery",
                                         publish |-> upd_sensor_data.publish])
                /\ IF DiscoveryDone(upd_i + 1)
                   THEN /\ DISCOVERY_MESSAGES_SENT' =
                              RtcSet(DISCOVERY_MESSAGES_SENT, TRUE)
                        /\ HandleAfterDiscovery(upd_sensor_data)
                   ELSE /\ upd_i' = upd_i + 1
                        /\ UNCHANGED <<DISCOVERY_MESSAGES_SENT, update_pc,
                                       ENABLE_PUMP, pump_origin, upd_signals>>
           ELSE /\ update_pc' = "connect"
                /\ upd_i' = 0
                /\ UNCHANGED <<DISCOVERY_MESSAGES_SENT, ENABLE_PUMP, pump_origin,
                               upd_signals, wire>>
    /\ UNCHANGED <<main_pc, boots, boot_origin, main_log, CHANNEL, sensor_pc, sensor_data, batches,
                   upd_sensor_data, relay_pc, pump_pin, relay_taken>>
    /\ UNCHANGED <<BOOT_COUNT, rtcCellVars>>
    /\ UNCHANGED <<avgVars, domVars, acqVars, dhtVars, relVars, trigVars, awakeVars, clockVars, wrapVars, cmdVars>>

DiscCollect ==
    SensorCollects(MaxBatches, {[hum |-> <<>>, temp |-> <<>>]}, {<<>>}, SysBattery)

DiscNext ==
    \/ MainBoot
    \/ MainFallibleOk
    \/ MainFallibleErr
    \/ MainSleep
    \/ MainWake
    \/ DiscCollect
    \/ SensorSend
    \/ SensorTimer
    \/ UpdConnect
    \/ UpdSubscribe
    \/ UpdBackoff
    \/ UpdReceive
    \/ UpdDiscoveryStep
    \/ UpdPublish
    \/ UpdDisplayWrite
    \/ UpdDisplayTimer
    \/ UpdPoll
    \/ UpdClearRetained

(***************************************************************************)
(* Awake specification: one wake cycle with the time since main spawned    *)
(* the tasks.  The timers of main and of sensor_task are timed; the        *)
(* network and display steps of update_task take any time.                 *)
(***************************************************************************)
\* AWAKE_DURATION_SECONDS: "a few seconds to tens of seconds depending on
\* deployment"
AwakeDurations == {5, 30}

\* the timers of one collect_all_sensor_data: per sample the DHT11 warm-up
\* and the three ADC warm-ups
\* mutant: no warm-up timer is awaited
AcquisitionMillis_NoWarmup == SENSOR_SAMPLE_COUNT * (0 + 3 * 0)

AcquisitionMillis ==
    SENSOR_SAMPLE_COUNT
        * (DHT11_WARMUP_DELAY_MILLISECONDS + 3 * SENSOR_WARMUP_DELAY_MILLISECONDS)

\* the step of the clock
TickMillis == 5 * SENSOR_WARMUP_DELAY_MILLISECONDS

\* whether Timer::after(awake_duration) of main has expired
AwakeTimerExpired == awake_ms >= awake_window * 1000

AwakeBoot == MainBoots(1)

\* time passes while main waits on its timer
AwakeTick ==
    /\ main_pc = "awake"
    /\ ~AwakeTimerExpired
    /\ awake_ms' = awake_ms + TickMillis
    /\ UNCHANGED <<awake_window, sensor_timer_ms>>
    /\ UNCHANGED <<avgVars, domVars, acqVars, dhtVars, rtcVars, sysVars, relVars,
                   trigVars, clockVars, wrapVars, cmdVars>>

\* main_fallible: Timer::after(awake_duration) expires, then enter_deep
AwakeSleep ==
    /\ AwakeTimerExpired
    /\ MainSleep

\* sensor_task: collect_all_sensor_data returns after its warm-up timers
AwakeCollect ==
    /\ awake_ms >= AcquisitionMillis
    /\ SensorCollects(1, {[hum |-> <<>>, temp |-> <<>>]}, {<<>>}, SysBattery)

\* Duration::from_secs(AWAKE_DURATION_SECONDS) of sensor_task, in milliseconds
\* mutant: no sampling period
SamplingPeriodMillis_None == awake_window * 0

SamplingPeriodMillis == awake_window * 1000

\* sensor_task: the send completes and Timer::after(sampling_period) starts
AwakeSend ==
    /\ SensorSends
    /\ sensor_timer_ms' = awake_ms + SamplingPeriodMillis
    /\ UNCHANGED <<awake_ms, awake_window>>

\* whether Timer::after(sampling_period) of sensor_task has expired
SamplingTimerExpired == sensor_pc = "timer" /\ awake_ms >= sensor_timer_ms

\* main and sensor_task with their timers, update_task never taking a batch
\* from CHANNEL (the case in which the channel is fullest).  SensorTimer is
\* enabled by SamplingTimerExpired, which holds in no state of this
\* specification in which main is awake, so it has no step here.
PaceNext ==
    \/ AwakeBoot
    \/ MainFallibleOk
    \/ MainFallibleErr
    \/ AwakeTick
    \/ AwakeSleep
    \/ AwakeCollect
    \/ AwakeSend

\* The timers of AWAKE_DURATION_SECONDS that sensor_task and process_display
\* start after the first acquisition end after main's, so SensorTimer and
\* UpdDisplayTimer have no step here.
AwakeNext ==
    \/ AwakeBoot
    \/ MainFallibleOk
    \/ MainFallibleErr
    \/ AwakeTick
    \/ AwakeSleep
    \/ AwakeCollect
    \/ SensorSend
    \/ UpdConnect
    \/ UpdSubscribe
    \/ UpdBackoff
    \/ UpdReceive
    \/ UpdDiscovery
    \/ UpdPublish
    \/ UpdDisplayWrite
    \/ UpdPoll
    \/ UpdClearRetained
    \/ RelayStart
    \/ RelayWait
    \/ RelayTimer

(***************************************************************************)
(* Clock specification (clock.rs): one call of                             *)
(* duration_to_next_rounded_wakeup on a time and a period in whole         *)
(* seconds.                                                                *)
(***************************************************************************)
\* embassy_time::Duration counts ticks of the time driver
TICK_HZ == 1000

\* Duration::from_secs and Duration::as_secs
DurationFromSecs(secs) == secs * TICK_HZ

AsSecs(d) == d \div TICK_HZ

\* next_rounded_wakeup(now, period)
\* mutant: now itself is rounded down to the period
NextRoundedWakeup_RoundsNow(now, period) ==
    DurationFromSecs((AsSecs(now) \div AsSecs(period)) * AsSecs(period))

NextRoundedWakeup(now, period) ==
    LET then == now + period
    IN DurationFromSecs((AsSecs(then) \div AsSecs(period)) * AsSecs(period))

\* duration_to_next_rounded_wakeup(now, period)
DurationToNextRoundedWakeup(now, period) ==
    NextRoundedWakeup(now, period) - now

\* 09:46:12 as seconds of the day
ClockExample == 9 * 3600 + 46 * 60 + 12

\* the times and the periods of the calls, in seconds
ClockNows == 0..MaxNow \cup {ClockExample}

ClockPeriods == 1..MaxPeriod \cup {60, 300, 3600}

ClockInit ==
    /\ clk_pc = "call"
    /\ clk_now \in {DurationFromSecs(n) : n \in ClockNows}
    /\ clk_period \in {DurationFromSecs(n) : n \in ClockPeriods}
    /\ clk_then = 0
    /\ clk_wait = 0

ClockCall ==
    /\ clk_pc = "call"
    /\ clk_then' = NextRoundedWakeup(clk_now, clk_period)
    /\ clk_wait' = DurationToNextRoundedWakeup(clk_now, clk_period)
    /\ clk_pc' = "done"
    /\ UNCHANGED <<clk_now, clk_period>>
    /\ UNCHANGED <<avgVars, domVars, acqVars, dhtVars, rtcVars, sysVars, relVars,
                   trigVars, awakeVars, wrapVars, cmdVars>>

ClockNext == ClockCall

(***************************************************************************)
(* Trigger specification: main over enough boots to see the boot counter   *)
(* pass a multiple of PUMP_TRIGGER_INTERVAL, with sensor_task building at  *)
(* most one batch per boot.                                                *)
(***************************************************************************)
TrigBoot == MainBoots(MaxTriggerBoots)

\* sensor_task: collect_all_sensor_data, with the batch noted in the history
TrigCollect ==
    /\ SensorBuilds(1, {[hum |-> <<>>, temp |-> <<>>]}, {<<>>}, {<<>>})
    /\ trigger_log' =
           Append(trigger_log,
                  [boot |-> boots, count |-> RtcGet(BOOT_COUNT),
                   trigger |-> HasReading(sensor_data', "PumpTrigger", TRUE)])

TrigNext ==
    \/ TrigBoot
    \/ MainFallibleOk
    \/ MainFallibleErr
    \/ MainSleep
    \/ MainWake
    \/ TrigCollect
    \/ SensorSend

(***************************************************************************)
(* Specifications.                                                         *)
(***************************************************************************)
\* stored boot counts of the acquisition specification: a boot that triggers
\* the pump and one that does not
AcqBootCounts == {1, 10}

AvgNext == AvgCall

InitAvg ==
    /\ AvgInit /\ DomIdle /\ AcqIdle /\ DhtIdle /\ SysIdle /\ ClockIdle /\ WrapIdle /\ CmdIdle
    /\ BOOT_COUNT = 0 /\ DISCOVERY_MESSAGES_SENT = FALSE /\ RtcIdle

SpecAvg ==
    /\ InitAvg
    /\ [][AvgNext]_vars

InitAcq ==
    /\ AcqInit /\ AvgIdle /\ DomIdle /\ DhtIdle /\ SysIdle /\ ClockIdle /\ WrapIdle /\ CmdIdle
    /\ BOOT_COUNT \in AcqBootCounts /\ DISCOVERY_MESSAGES_SENT = FALSE
    /\ RtcIdle

(***************************************************************************)
(* Boot counter specification: the first lines of main on a BOOT_COUNT     *)
(* kept at the width of u32, as two u16 halves.  Whether the build traps   *)
(* on integer overflow (overflow-checks: on in the dev profile, off in the *)
(* release profile unless asked for) is a property of the build.           *)
(***************************************************************************)
\* the u32 with the given halves
U32(hi, lo) == [hi |-> hi, lo |-> lo]

\* u32::MAX = 2^32 - 1
U32_MAX == U32(U16_MAX, U16_MAX)

\* boot_count + 1 in u32: the wrapped sum, and whether the sum left u32
BootCountPlusOne(boot_count) ==
    [overflow |-> boot_count = U32_MAX,
     value |-> IF boot_count.lo < U16_MAX
               THEN U32(boot_count.hi, boot_count.lo + 1)
               ELSE U32((boot_count.hi + 1) % U16_MOD, 0)]

\* values of BOOT_COUNT at the first boot: after power-on, around the carry
\* between the halves and just below u32::MAX
WrapBootCounts ==
    {U32(hi, lo) : hi \in {0, 1, U16_MAX}, lo \in {0, 1, U16_MAX - 2, U16_MAX - 1, U16_MAX}}

WrapInit ==
    /\ wrap_pc = "main"
    /\ wrap_boot_count \in WrapBootCounts
    /\ wrap_overflow_checks \in BOOLEAN
    /\ wrap_boots = 0

\* main: let boot_count = BOOT_COUNT.get(); BOOT_COUNT.set(boot_count + 1);
\* main_fallible(spawner, boot_count).  An overflowing sum panics before the
\* set in a build that traps and wraps otherwise.
WrapMain ==
    /\ wrap_pc = "main"
    /\ LET sum == BootCountPlusOne(wrap_boot_count)
       IN IF sum.overflow /\ wrap_overflow_checks
          THEN wrap_pc' = "panicked" /\ UNCHANGED wrap_boot_count
          ELSE wrap_pc' = "main_fallible" /\ wrap_boot_count' = sum.value
    /\ wrap_boots' = wrap_boots + 1
    /\ UNCHANGED wrap_overflow_checks
    /\ UNCHANGED <<avgVars, domVars, acqVars, dhtVars, rtcVars, sysVars, relVars,
                   trigVars, awakeVars, clockVars, cmdVars>>

\* main_fallible ends in enter_deep or, on an error, in software_reset: the
\* chip boots again and the RTC fast memory keeps BOOT_COUNT
WrapReboot ==
    /\ wrap_pc = "main_fallible"
    /\ wrap_boots < MaxWrapBoots
    /\ wrap_pc' = "main"
    /\ UNCHANGED <<wrap_boot_count, wrap_overflow_checks, wrap_boots>>
    /\ UNCHANGED <<avgVars, domVars, acqVars, dhtVars, rtcVars, sysVars, relVars,
                   trigVars, awakeVars, clockVars, cmdVars>>

\* after the panic: the handler of esp_backtrace halts the chip (no step) or
\* resets it, and main runs again on the same BOOT_COUNT
WrapPanicReset ==
    /\ wrap_pc = "panicked"
    /\ wrap_boots < MaxWrapBoots
    /\ wrap_pc' = "main"
    /\ UNCHANGED <<wrap_boot_count, wrap_overflow_checks, wrap_boots>>
    /\ UNCHANGED <<avgVars, domVars, acqVars, dhtVars, rtcVars, sysVars, relVars,
                   trigVars, awakeVars, clockVars, cmdVars>>

WrapNext ==
    \/ WrapMain
    \/ WrapReboot
    \/ WrapPanicReset

InitWrap ==
    /\ WrapInit /\ AvgIdle /\ DomIdle /\ AcqIdle /\ DhtIdle /\ RtcIdle
    /\ SysIdle /\ ClockIdle /\ CmdIdle
    /\ BOOT_COUNT = 0 /\ DISCOVERY_MESSAGES_SENT = FALSE

SpecWrap ==
    /\ InitWrap
    /\ [][WrapNext]_vars

(***************************************************************************)
(* Command specification: the inner loop of update_task on the messages    *)
(* of the broker.  update_task is subscribed to the pump set topic, so the *)
(* broker delivers the empty retained message it publishes there back to   *)
(* it.                                                                     *)
(***************************************************************************)
\* what a client can publish: both topics, every kind of payload
RemoteMessages ==
    {[topic |-> t, payload |-> p] :
         t \in {PumpSetTopic, OtherTopic}, p \in MqttPayloads \cup {Utf8("open")}}

\* the empty message on the pump set topic
ClearMessage == [topic |-> PumpSetTopic, payload |-> Utf8("")]

CmdInit ==
    /\ cmd_pc = "select"
    /\ cmd_event = [topic |-> "", payload |-> Utf8("")]
    /\ cmd_signals = <<>>
    /\ cmd_clears = 0
    /\ cmd_echoes = 0
    /\ cmd_received = 0

\* client.poll() returns Ok(Event::Publish(e)): a message of a client, or the
\* empty message coming back; process_received_mqtt_message
CmdReceive ==
    /\ cmd_pc = "select"
    /\ cmd_received < MaxCommands
    /\ \E echo \in BOOLEAN, m \in RemoteMessages :
        /\ echo => (cmd_echoes > 0 /\ m = ClearMessage)
        /\ LET r == ProcessReceivedMqttMessage(m.topic, m.payload)
           IN /\ cmd_event' = m
              /\ cmd_echoes' = IF echo THEN cmd_echoes - 1 ELSE cmd_echoes
              /\ cmd_signals' = IF r.signal.some
                                THEN Append(cmd_signals, r.signal.v)
                                ELSE cmd_signals
              /\ cmd_pc' = IF r.action = "ClearRetained" THEN "clear" ELSE "select"
    /\ cmd_received' = cmd_received + 1
    /\ UNCHANGED cmd_clears
    /\ UNCHANGED <<avgVars, domVars, acqVars, dhtVars, rtcVars, sysVars, relVars,
                   trigVars, awakeVars, clockVars, wrapVars>>

\* MqttAction::ClearRetained: client.publish of the empty retained message;
\* on success the broker sends it back, on an error update_task reconnects
\* and comes back to the inner loop
CmdClear ==
    /\ cmd_pc = "clear"
    /\ cmd_clears' = cmd_clears + 1
    /\ \E ok \in BOOLEAN :
           cmd_echoes' = IF ok THEN cmd_echoes + 1 ELSE cmd_echoes
    /\ cmd_pc' = "select"
    /\ UNCHANGED <<cmd_event, cmd_signals, cmd_received>>
    /\ UNCHANGED <<avgVars, domVars, acqVars, dhtVars, rtcVars, sysVars, relVars,
                   trigVars, awakeVars, clockVars, wrapVars>>

CmdNext ==
    \/ CmdReceive
    \/ CmdClear

InitCmd ==
    /\ CmdInit /\ AvgIdle /\ DomIdle /\ AcqIdle /\ DhtIdle /\ RtcIdle
    /\ SysIdle /\ ClockIdle /\ WrapIdle
    /\ BOOT_COUNT = 0 /\ DISCOVERY_MESSAGES_SENT = FALSE

SpecCmd ==
    /\ InitCmd
    /\ [][CmdNext]_vars

InitClock ==
    /\ ClockInit /\ AvgIdle /\ DomIdle /\ AcqIdle /\ DhtIdle /\ RtcIdle
    /\ SysIdle /\ WrapIdle /\ CmdIdle
    /\ BOOT_COUNT = 0 /\ DISCOVERY_MESSAGES_SENT = FALSE

SpecClock ==
    /\ InitClock
    /\ [][ClockNext]_vars

SpecAcq ==
    /\ InitAcq
    /\ [][AcqNext]_vars

\* one cycle in which sensor_task takes every step it can take, against
\* hardware that answers or an ADC that stays silent
InitAcqLive ==
    /\ AcqInits({HwAnswers, HwAdcSilent}) /\ AvgIdle /\ DomIdle /\ DhtIdle /\ SysIdle /\ ClockIdle /\ WrapIdle /\ CmdIdle
    /\ BOOT_COUNT = 1 /\ DISCOVERY_MESSAGES_SENT = FALSE
    /\ RtcIdle

SpecAcqLive ==
    /\ InitAcqLive
    /\ [][AcqNext]_vars
    /\ WF_vars(AcqNext)

InitDht ==
    /\ DhtInit /\ AvgIdle /\ DomIdle /\ AcqIdle /\ SysIdle /\ ClockIdle /\ WrapIdle /\ CmdIdle
    /\ BOOT_COUNT = 0 /\ DISCOVERY_MESSAGES_SENT = FALSE /\ RtcIdle

SpecDht ==
    /\ InitDht
    /\ [][DhtNext]_vars

\* the decoder from the top (read) or from the bottom (wait_for_pulse); the
\* code runs both to completion without suspending
InitDhtPoll ==
    /\ DhtInit \/ (ReadIdle /\ WaitInit)
    /\ AvgIdle /\ DomIdle /\ AcqIdle /\ SysIdle /\ ClockIdle /\ WrapIdle /\ CmdIdle
    /\ BOOT_COUNT = 0 /\ DISCOVERY_MESSAGES_SENT = FALSE /\ RtcIdle

\* the positions of read and wait_for_pulse: every step changes one of them
dhtPosition == <<dht_pc, dht_i, wait_pc, wait_polls>>

\* the decoder busy-polls without suspending, so its steps are always taken
SpecDhtPoll ==
    /\ InitDhtPoll
    /\ [][DhtPollNext]_vars
    /\ WF_dhtPosition(DhtPollNext)

InitRtc ==
    /\ RtcInit /\ AvgIdle /\ DomIdle /\ AcqIdle /\ DhtIdle /\ SysIdle /\ ClockIdle /\ WrapIdle /\ CmdIdle
    /\ BOOT_COUNT = 0 /\ DISCOVERY_MESSAGES_SENT = FALSE

SpecRtc ==
    /\ InitRtc
    /\ [][RtcNext]_vars

InitDom ==
    /\ DomInit /\ AvgIdle /\ AcqIdle /\ DhtIdle /\ SysIdle /\ ClockIdle /\ WrapIdle /\ CmdIdle
    /\ BOOT_COUNT = 0 /\ DISCOVERY_MESSAGES_SENT = FALSE /\ RtcIdle

SpecDom ==
    /\ InitDom
    /\ [][DomNext]_vars

InitRelay ==
    /\ RelayInit /\ AvgIdle /\ DomIdle /\ AcqIdle /\ DhtIdle /\ RtcIdle
    /\ BOOT_COUNT = 1 /\ DISCOVERY_MESSAGES_SENT = FALSE

\* Timer::after(PUMP_INTERVAL) expires and the executor resumes relay_task
SpecRelay ==
    /\ InitRelay
    /\ [][RelayNext]_vars
    /\ WF_vars(RelayTimer)

InitChan ==
    /\ ChanInit /\ AvgIdle /\ DomIdle /\ AcqIdle /\ DhtIdle /\ RtcIdle
    /\ BOOT_COUNT = 1 /\ DISCOVERY_MESSAGES_SENT \in BOOLEAN

SpecChan ==
    /\ InitChan
    /\ [][ChanNext]_vars

Init ==
    /\ SysInit /\ AvgIdle /\ DomIdle /\ AcqIdle /\ DhtIdle /\ RtcIdle
    /\ AwakeIdle
    /\ ClockIdle /\ WrapIdle /\ CmdIdle

InitAwake ==
    /\ SysInit /\ AvgIdle /\ DomIdle /\ AcqIdle /\ DhtIdle /\ RtcIdle
    /\ awake_ms = 0
    /\ awake_window \in AwakeDurations
    /\ sensor_timer_ms = 0
    /\ ClockIdle /\ WrapIdle /\ CmdIdle

SpecAwake ==
    /\ InitAwake
    /\ [][AwakeNext]_vars

SpecPace ==
    /\ InitAwake
    /\ [][PaceNext]_vars

SpecTrig ==
    /\ Init
    /\ [][TrigNext]_vars

SpecDisc ==
    /\ Init
    /\ [][DiscNext]_vars

Spec ==
    /\ Init
    /\ [][Next]_vars

(***************************************************************************)
(* Helpers of the properties.                                              *)
(***************************************************************************)
RangeOf(s) == {s[j] : j \in 1..Len(s)}

MinOfSeq(s) == CHOOSE x \in RangeOf(s) : \A y \in RangeOf(s) : x <= y

MaxOfSeq(s) == CHOOSE x \in RangeOf(s) : \A y \in RangeOf(s) : x >= y

\* s without the first occurrence of x
RECURSIVE RemoveOne(_, _)
RemoveOne(s, x) ==
    IF s = <<>> THEN <<>>
    ELSE IF Head(s) = x THEN Tail(s)
    ELSE <<Head(s)>> \o RemoveOne(Tail(s), x)

\* s without one instance of its minimum and one instance of its maximum
WithoutExtremes(s) == RemoveOne(RemoveOne(s, MinOfSeq(s)), MaxOfSeq(s))

\* the scaled values (raw * 2) of the successful battery reads of the log
\* that are strictly below limit, in read order
RECURSIVE ScaledBelow(_, _)
ScaledBelow(log, limit) ==
    IF log = <<>> THEN <<>>
    ELSE (IF Head(log).some /\ Head(log).v * 2 < limit
          THEN <<Head(log).v * 2>> ELSE <<>>) \o ScaledBelow(Tail(log), limit)

\* the values read_battery_voltage returned for the reads of the log
RECURSIVE AcceptedBatterySamples(_)
AcceptedBatterySamples(log) ==
    IF log = <<>> THEN <<>>
    ELSE (IF ReadBatteryVoltage(Head(log)).some
          THEN <<ReadBatteryVoltage(Head(log)).v>> ELSE <<>>)
         \o AcceptedBatterySamples(Tail(log))

\* the raw battery reads of the scenario of the charging-voltage filter
OutlierScenario == <<Some(1000), Some(1005), Some(1010), Some(4000), Some(1008)>>

(***************************************************************************)
(* Properties.                                                             *)
(***************************************************************************)

\* a published batch that asks for the pump while the reservoir is Full
TriggeredWhileFull(sd) ==
    /\ sd.publish
    /\ HasReading(sd, "PumpTrigger", TRUE)
    /\ HasReading(sd, "WaterLevel", "Full")

\* the writers of a true value on ENABLE_PUMP: publish_sensor_data for a
\* published batch with PumpTrigger(true) and WaterLevel(Empty), or the
\* remote command OPEN
StartsPump(origin) ==
    \/ /\ origin.kind = "batch"
       /\ origin.sd.publish
       /\ HasReading(origin.sd, "PumpTrigger", TRUE)
       /\ HasReading(origin.sd, "WaterLevel", "Empty")
    \/ /\ origin.kind = "remote"
       /\ origin.cmd = "OPEN"

\* C1: for a batch with publish = true that holds PumpTrigger(true) and
\* WaterLevel(Full), the value publish_sensor_data signals on ENABLE_PUMP is
\* false, the value relay_task takes from that batch is false, and the pump
\* pin is never high from a run started by that batch.
C1_FullReservoirKeepsPumpOff ==
    /\ (pump_origin.kind = "batch" /\ TriggeredWhileFull(pump_origin.sd))
           => (ENABLE_PUMP.some /\ ENABLE_PUMP.v = FALSE)
    /\ (relay_taken.origin.kind = "batch"
            /\ TriggeredWhileFull(relay_taken.origin.sd))
           => (relay_taken.v = FALSE /\ (relay_pc = "wait" => ~pump_pin))
    /\ pump_pin => ~(relay_taken.origin.kind = "batch"
                         /\ TriggeredWhileFull(relay_taken.origin.sd))

\* C1 witness: relay_task has taken the value signalled for such a batch and
\* waits for the next one with the pin low.
C1_Witness ==
    /\ relay_taken.origin.kind = "batch"
    /\ TriggeredWhileFull(relay_taken.origin.sd)
    /\ relay_pc = "wait"
    /\ ~pump_pin

C3_UnpublishedBatchStaysOffWire ==
    /\ \A k \in 1..Len(wire) : wire[k].publish
    /\ update_pc = "publish" => upd_sensor_data.publish
    /\ pump_origin.kind = "batch" => pump_origin.sd.publish

\* C3 witness: update_task has handled a batch with publish = false up to the
\* display timer and nothing of it is on the wire.
C3_Witness ==
    /\ update_pc = "display_timer"
    /\ upd_sensor_data.seq > 0
    /\ ~upd_sensor_data.publish
    /\ \A k \in 1..Len(wire) : wire[k].seq # upd_sensor_data.seq

\* C4: build_sensor_data sets publish to true if and only if at least one of
\* the SENSOR_SAMPLE_COUNT battery reads of the cycle succeeded and passed the
\* charging-voltage filter, whatever the other sensors did.
C4_PublishIffBatterySample ==
    acq_pc \in {"built", "sent"} =>
        (acq_sensor_data.publish <=>
            \E j \in 1..Len(battery_adc_log) :
                ReadBatteryVoltage(battery_adc_log[j]).some)

\* a published batch with a single battery sample, no battery aggregate and
\* every other sensor failed
C4_Witness ==
    /\ acq_pc = "built"
    /\ acq_sensor_data.publish
    /\ Len(battery_voltage_samples) = 1
    /\ ~HasKind(acq_sensor_data, "BatteryVoltage")
    /\ ~HasKind(acq_sensor_data, "WaterLevel")
    /\ ~HasKind(acq_sensor_data, "AirHumidity")
    /\ ~HasKind(acq_sensor_data, "SoilMoisture")

\* C5: the charging-voltage filter runs before aggregation: the battery sample
\* set holds exactly the samples read_battery_voltage accepted (none above the
\* charging threshold), the battery aggregate is the trimmed mean of those,
\* and for raw reads [1000,1005,1010,4000,1008] the aggregate is 2013, from
\* the four samples 2000, 2010, 2016, 2020.
C5_FilterBeforeAggregation ==
    /\ \A j \in 1..Len(battery_voltage_samples) :
           battery_voltage_samples[j] <= USB_CHARGING_VOLTAGE
    /\ acq_pc \notin {"built", "sent"} =>
           battery_voltage_samples = AcceptedBatterySamples(battery_adc_log)
    /\ acq_pc \in {"built", "sent"} =>
           LET accepted == AcceptedBatterySamples(battery_adc_log)
               n == Len(accepted)
           IN /\ battery_voltage_samples = SamplesAfterAverage(accepted)
              /\ HasKind(acq_sensor_data, "BatteryVoltage") <=> n >= 3
              /\ n >= 3 =>
                     HasReading(acq_sensor_data, "BatteryVoltage",
                                SumSeq(WithoutExtremes(accepted)) \div (n - 2))
    /\ (acq_pc \in {"built", "sent"} /\ battery_adc_log = OutlierScenario) =>
           /\ battery_voltage_samples = <<2000, 2010, 2016, 2020>>
           /\ HasReading(acq_sensor_data, "BatteryVoltage", 2013)

C5_Witness ==
    /\ acq_pc = "built"
    /\ battery_adc_log = OutlierScenario
    /\ HasReading(acq_sensor_data, "BatteryVoltage", 2013)

\* C6 as claimed: read_battery_voltage keeps every scaled value up to and
\* including the charging threshold and drops every scaled value above it.
C6_KeptUpToThreshold ==
    acq_pc \notin {"built", "sent"} =>
        battery_voltage_samples = ScaledBelow(battery_adc_log, USB_CHARGING_VOLTAGE + 1)

\* C6 (amended): read_battery_voltage scales the raw ADC value by 2 and keeps
\* the sample exactly when the scaled value is strictly below the charging
\* threshold; a scaled value equal to or above 4100 is dropped.
C6_KeptBelowThreshold ==
    acq_pc \notin {"built", "sent"} =>
        battery_voltage_samples = ScaledBelow(battery_adc_log, USB_CHARGING_VOLTAGE)

\* a cycle that read 2049 (kept as 4098) and 2050 (4100, dropped)
C6_Witness ==
    /\ acq_pc = "build"
    /\ \E j \in 1..Len(battery_adc_log) : battery_adc_log[j] = Some(2050)
    /\ \E j \in 1..Len(battery_adc_log) : battery_adc_log[j] = Some(2049)
    /\ \E j \in 1..Len(battery_voltage_samples) : battery_voltage_samples[j] = 4098
    /\ \A j \in 1..Len(battery_voltage_samples) :
           battery_voltage_samples[j] # USB_CHARGING_VOLTAGE

\* C7: for every sample set of length 0, 1 or 2 (u8 or u16 samples),
\* calculate_average returns None.
C7_ShortSetsGiveNone ==
    (avg_pc = "returned" /\ Len(avg_input) <= 2) => avg_result = None

C7_Witness ==
    /\ avg_pc = "returned"
    /\ Len(avg_input) = 2
    /\ avg_input[1] # avg_input[2]
    /\ avg_result = None

\* C8: for every sample set of length n with 3 <= n <= SENSOR_SAMPLE_COUNT,
\* calculate_average returns Some(floor(S / (n - 2))), S being the sum of the
\* samples without one instance of the minimum and one of the maximum; the
\* widened sum does not overflow, the result is never None and lies between
\* the second-smallest and the second-largest sample.
C8_TrimmedMean ==
    (avg_pc = "returned" /\ Len(avg_input) >= 3
                         /\ Len(avg_input) <= SENSOR_SAMPLE_COUNT) =>
        LET n == Len(avg_input)
            rest == WithoutExtremes(avg_input)
        IN /\ ~SumOverflows(avg_input)
           /\ avg_result = Some(SumSeq(rest) \div (n - 2))
           /\ avg_result.v >= MinOfSeq(RemoveOne(avg_input, MinOfSeq(avg_input)))
           /\ avg_result.v <= MaxOfSeq(RemoveOne(avg_input, MaxOfSeq(avg_input)))
           /\ avg_result.v <= MaxOfWidth(avg_width)

\* five u16 samples whose trimmed mean is truncated (65535 + 65534 + 1 over 3)
C8_Witness ==
    /\ avg_pc = "returned"
    /\ avg_width = 16
    /\ avg_input = <<65535, 0, 65534, 1, 65535>>
    /\ avg_result = Some(43690)

\* the checksum equation of a frame: byte4 = byte0 + byte1 + byte2 + byte3 mod 256
ChecksumHolds(f) == f[5] = (f[1] + f[2] + f[3] + f[4]) % 256

\* C9: for every 5-byte frame (b0..b4) with b4 = (b0+b1+b2+b3) mod 256 that
\* the sensor transmits with valid pulse timing, Dht11::read returns
\* Ok(Measurement) with humidity = b0 and temperature = b2.
C9_ValidFrameDecodes ==
    (dht_pc = "done" /\ dht_line_ok /\ ChecksumHolds(dht_frame)) =>
        /\ dht_result.kind = "Ok"
        /\ dht_result.v.humidity = dht_frame[1]
        /\ dht_result.v.temperature = dht_frame[3]

\* C10 as claimed: for every 40-bit frame received in full whose b4 differs
\* from (b0+b1+b2+b3) mod 256, Dht11::read returns Err(CrcMismatch) and never
\* Err(Timeout).
C10_MismatchNeverTimeout ==
    (dht_pc = "done" /\ dht_i = 40 /\ ~ChecksumHolds(dht_data)) =>
        dht_result.kind = "CrcMismatch"

\* C10 (amended): for every 40-bit frame received in full whose b4 differs
\* from (b0+b1+b2+b3) mod 256, and after which the line returns to idle within
\* TIMEOUT_US polls without a GPIO error, Dht11::read returns Err(CrcMismatch);
\* CrcMismatch is returned in no other case.
C10_MismatchAfterIdle ==
    /\ (dht_pc = "done" /\ dht_i = 40 /\ dht_line_ok /\ ~ChecksumHolds(dht_data)) =>
           dht_result.kind = "CrcMismatch"
    /\ (dht_pc = "done" /\ dht_result.kind = "CrcMismatch") =>
           (dht_i = 40 /\ dht_line_ok /\ ~ChecksumHolds(dht_data))

\* a frame with a wrong checksum, received in full, reported as CrcMismatch
C10_Witness ==
    /\ dht_pc = "done"
    /\ dht_i = 40
    /\ dht_data = <<85, 0, 1, 255, 86>>
    /\ dht_result.kind = "CrcMismatch"

\* the wait_for_pulse calls of a read that runs to its end: two for the
\* acknowledgement, two per data bit, one for idle
PulseWaitsOfRead == 2 + (2 * 40) + 1

\* what holds at every step of wait_for_pulse and of read
C11_PollsAndWaitsBounded ==
    /\ wait_polls <= TIMEOUT_US + 1
    /\ (wait_polls = TIMEOUT_US + 1 /\ wait_count = wait_polls)
           => (wait_pc = "done" /\ wait_result.kind = "Timeout")
    /\ wait_result.kind = "Timeout" => wait_polls = TIMEOUT_US + 1
    /\ wait_pc = "done"
           => wait_result = WaitForPulse(IF wait_result.kind = "Gpio" THEN GpioFault
                                         ELSE LevelPulse(wait_count))
    /\ dht_waits <= PulseWaitsOfRead
    /\ (dht_pc = "done" /\ dht_result.kind \in {"Ok", "CrcMismatch"})
           => dht_waits = PulseWaitsOfRead

\* C11: wait_for_pulse polls the line at most TIMEOUT_US + 1 times and
\* returns Err(Timeout) when the awaited level did not show in those polls
\* (and only then), so every call of wait_for_pulse and every call of
\* Dht11::read ends, the latter after at most 83 pulse waits.
C11_ReadTerminates ==
    /\ []C11_PollsAndWaitsBounded
    /\ <>(dht_pc \in {"idle", "done"} /\ wait_pc \in {"idle", "done"})

\* C11 witness: a read whose 82 pulses came in time and whose idle wait, the
\* 83rd, timed out.
C11_Witness ==
    /\ dht_pc = "done"
    /\ dht_waits = PulseWaitsOfRead
    /\ dht_result.kind = "Timeout"

\* C12: with main, sensor_task and update_task calling get and set on one
\* RtcCell in any order, get returns the argument of the most recent set (the
\* initial value if there was none): a get right after a get returns the same
\* value, and a get right after set(v) returns v.
C12_GetReturnsLastSet ==
    /\ rtc_op.op = "get" => rtc_op.v = rtc_written
    /\ (rtc_op.op = "get" /\ rtc_prev_op.op = "get") => rtc_op.v = rtc_prev_op.v
    /\ (rtc_op.op = "get" /\ rtc_prev_op.op = "set") => rtc_op.v = rtc_prev_op.v

\* C12 witness: one task sets a value other than the initial one and another
\* task gets it.
C12_Witness ==
    /\ rtc_prev_op.op = "set"
    /\ rtc_prev_op.task = "update_task"
    /\ rtc_prev_op.v = 2
    /\ rtc_op.op = "get"
    /\ rtc_op.task = "sensor_task"
    /\ rtc_op.v = 2

\* C13: every raw value at or below MOISTURE_MIN converts to Wet and every
\* raw value at or above MOISTURE_MAX converts to Dry, 0 and 65535 included,
\* and MOISTURE_MAX - clamped never leaves u16.
C13_MoistureClampedAtBothEnds ==
    /\ ~MoistureSubUnderflows(dom_value)
    /\ dom_pc = "returned" =>
           /\ dom_value <= MOISTURE_MIN => dom_moisture = "Wet"
           /\ dom_value >= MOISTURE_MAX => dom_moisture = "Dry"

\* C13 witness: the largest u16 value has been converted, to Dry.
C13_Witness ==
    /\ dom_pc = "returned"
    /\ dom_value = U16_MAX
    /\ dom_moisture = "Dry"

\* C14: every raw value at or above WATER_LEVEL_THRESHOLD converts to Full
\* and every value below it to Empty; 3000 gives Full and 2999 gives Empty.
C14_WaterLevelThreshold ==
    dom_pc = "returned" =>
        /\ dom_value >= WATER_LEVEL_THRESHOLD => dom_water = "Full"
        /\ dom_value < WATER_LEVEL_THRESHOLD => dom_water = "Empty"
        /\ dom_value = 3000 => dom_water = "Full"
        /\ dom_value = 2999 => dom_water = "Empty"

\* C14 witness: the threshold itself has been converted, to Full.
C14_Witness ==
    /\ dom_pc = "returned"
    /\ dom_value = WATER_LEVEL_THRESHOLD
    /\ dom_water = "Full"

\* C15: for every batch update_task receives, whatever its publish flag and
\* its readings, exactly one pump decision is signalled on ENABLE_PUMP while
\* the batch is handled: never more than one, and one has been signalled by
\* the time handle_sensor_data reaches process_display.
C15_OneDecisionPerBatch ==
    /\ upd_signals <= 1
    /\ update_pc \in {"display", "display_timer"} => upd_signals = 1

\* the runs that the values relay_task took should have started
TrueValuesTaken == Cardinality({k \in 1..Len(rel_log) : rel_log[k].v})

C16_PinHighOnlyInRun ==
    /\ pump_pin <=> relay_pc = "run"
    /\ rel_runs = TrueValuesTaken

C16_RunSteps ==
    /\ (relay_pc = "run" /\ rel_signals' # rel_signals)
           => (pump_pin' /\ relay_pc' = "run")
    /\ (relay_pc = "run" /\ relay_pc' # "run")
           => (~pump_pin' /\ relay_pc' = "wait" /\ ENABLE_PUMP' = ENABLE_PUMP)
    /\ (~pump_pin /\ pump_pin')
           => (ENABLE_PUMP = Some(TRUE) /\ ENABLE_PUMP' = None)
    /\ (Len(rel_log') > Len(rel_log) /\ ~rel_log'[Len(rel_log')].v)
           => (pump_pin' = pump_pin /\ relay_pc' = relay_pc)

C18_SlotHoldsLatest ==
    /\ ENABLE_PUMP.some <=> Len(rel_signalled) > 0
    /\ ENABLE_PUMP.some => ENABLE_PUMP.v = rel_signalled[Len(rel_signalled)]
    /\ Len(rel_log) + (IF ENABLE_PUMP.some THEN 1 ELSE 0) <= rel_signals
    /\ \A k \in 1..Len(rel_log) :
           /\ Len(rel_log[k].pending) > 0
           /\ rel_log[k].v = rel_log[k].pending[Len(rel_log[k].pending)]

C18_TakeStep ==
    Len(rel_log') # Len(rel_log)
        => /\ Len(rel_log') = Len(rel_log) + 1
           /\ rel_log'[Len(rel_log')].pending = rel_signalled
           /\ relay_taken'.v = rel_signalled[Len(rel_signalled)]
           /\ ENABLE_PUMP' = None

\* C18: ENABLE_PUMP holds at most the value signalled last: when relay_task
\* resumes from wait() it observes the last of the values signalled since
\* its previous wait() returned, and none of the earlier ones; the step
\* empties the slot, so relay_task never takes more values than were
\* signalled and a value is not observed a second time.
C18_LatestValueWinsOnce ==
    /\ []C18_SlotHoldsLatest
    /\ [][C18_TakeStep]_vars

\* C18 witness: false then true were signalled before relay_task resumed; it
\* took true only, started one run, and the slot is empty.
C18_Witness ==
    /\ Len(rel_log) = 1
    /\ rel_log[1].pending = <<FALSE, TRUE>>
    /\ relay_taken.v
    /\ rel_runs = 1
    /\ ~ENABLE_PUMP.some
    /\ rel_signals = 2

\* the batches sent so far, and the sequence numbers from a + 1 to b
BatchesSent == IF sensor_pc = "send" THEN batches - 1 ELSE batches

SeqNumbers(a, b) == [k \in 1..(b - a) |-> a + k]

ChannelSeqNumbers == [k \in 1..Len(CHANNEL) |-> CHANNEL[k].seq]

C17_NothingLostOrRepeated ==
    /\ Len(CHANNEL) <= CHANNEL_CAPACITY
    /\ upd_sensor_data.seq <= BatchesSent
    /\ ChannelSeqNumbers = SeqNumbers(upd_sensor_data.seq, BatchesSent)
    /\ sensor_pc = "send" => sensor_data.seq = batches

C17_ChannelSteps ==
    /\ (sensor_pc = "send" /\ Len(CHANNEL) = CHANNEL_CAPACITY)
           => (sensor_pc' = "send" /\ sensor_data' = sensor_data)
    /\ upd_sensor_data' # upd_sensor_data
           => /\ upd_sensor_data' = Head(CHANNEL)
              /\ upd_sensor_data'.seq = upd_sensor_data.seq + 1
              /\ CHANNEL' = Tail(CHANNEL)
    /\ (update_pc = "select" /\ upd_sensor_data' = upd_sensor_data)
           => \/ CHANNEL' = CHANNEL
              \/ CHANNEL' = Append(CHANNEL, sensor_data)

\* C17: the reading channel never holds more than 3 batches; while it is
\* full the sensor task stays in send with its batch; the batches in the
\* channel are, in send order, exactly those sent and not yet received, so
\* none is discarded; update_task receives the batches one at a time in send
\* order, each once, and a select that client.poll() wins takes nothing out
\* of the channel.
C17_BoundedFifoExactlyOnce ==
    /\ []C17_NothingLostOrRepeated
    /\ [][C17_ChannelSteps]_vars

\* C17 witness: update_task received batch 1 and then a select returned a
\* remote command; meanwhile batches 2, 3 and 4 filled the channel and the
\* sensor task is suspended in send with batch 5.
C17_Witness ==
    /\ update_pc = "clear"
    /\ upd_sensor_data.seq = 1
    /\ Len(CHANNEL) = CHANNEL_CAPACITY
    /\ sensor_pc = "send"
    /\ sensor_data.seq = 5

NoTaskSpawned == sensor_pc = "off" /\ update_pc = "off" /\ relay_pc = "off"

AllTasksSpawned == sensor_pc # "off" /\ update_pc # "off" /\ relay_pc # "off"

C19_OneIncrementPerBoot == (BOOT_COUNT - boots) \in SysBootCounts

C19_BootCountSteps ==
    /\ boots' # boots
           => /\ BOOT_COUNT' = BOOT_COUNT + 1
              /\ main_pc = "boot" /\ main_pc' = "init"
              /\ NoTaskSpawned /\ NoTaskSpawned'
    /\ BOOT_COUNT' # BOOT_COUNT => boots' = boots + 1

\* C19: every execution of main, whether after power-on, a wake-up from deep
\* sleep or a software reset, adds exactly 1 to BOOT_COUNT, in the one step
\* that opens the boot, while no task is spawned and before initialization;
\* no other step of main or of a task writes BOOT_COUNT, so after n boots it
\* is the value found at power-on plus n: a wake-up never resets it.
C19_BootCountedOnceBeforeInit ==
    /\ []C19_OneIncrementPerBoot
    /\ [][C19_BootCountSteps]_vars

\* C19 witness: the second boot, started by a wake-up from deep sleep, has
\* counted itself: the counter found at 9 on power-on reads 11.
C19_Witness ==
    /\ main_pc = "init"
    /\ boots = 2
    /\ boot_origin = Wake
    /\ BOOT_COUNT = PUMP_TRIGGER_INTERVAL + 1

C20_NeverHalfInitialized ==
    /\ main_pc \in {"boot", "init"} => NoTaskSpawned
    /\ main_pc = "awake" => AllTasksSpawned
    /\ boot_origin.kind = "software_reset"
           => /\ main_pc \in {"boot", "init"}
              /\ boot_origin.step \in {"wifi", "display", "write"}

C20_FailureSteps ==
    /\ (main_pc = "init" /\ main_pc' # "init")
           => \/ main_pc' = "awake" /\ AllTasksSpawned'
              \/ /\ main_pc' = "boot"
                 /\ boot_origin'.kind = "software_reset"
                 /\ NoTaskSpawned /\ NoTaskSpawned'
    /\ (main_pc' = "sleep" /\ main_pc # "sleep") => main_pc = "awake"
    /\ (main_pc' = "awake" /\ main_pc # "awake")
           => (main_pc = "init" /\ boot_origin' = Initialized)

\* C20: when main_fallible fails at the Wi-Fi bring-up, at Display::new or at
\* the first display write, main calls software_reset and the next thing
\* that runs is a fresh boot: no task was spawned before the failure, the
\* controller reaches neither the awake timer nor deep sleep in that boot,
\* and whenever it is awake all three tasks have been spawned.
C20_InitFailureResetsBeforeSpawn ==
    /\ []C20_NeverHalfInitialized
    /\ [][C20_FailureSteps]_vars

\* C20 witness: the first display write of the first boot failed; the chip
\* is restarting by software_reset with no task spawned and the boot counted.
C20_Witness ==
    /\ main_pc = "boot"
    /\ boots = 1
    /\ boot_origin = SoftwareReset("write")
    /\ NoTaskSpawned
    /\ BOOT_COUNT = 1

\* what main does, in order, in a boot whose initialization succeeds
SuccessfulBoot ==
    <<"boot_count", "wifi", "display", "write", "spawn_update", "spawn_sensor",
      "spawn_relay", "timer", "stop_wifi", "power_off", "enter_deep">>

C21_BootInOrder ==
    /\ main_pc = "init" => main_log = SubSeq(SuccessfulBoot, 1, 1)
    /\ main_pc = "awake" => main_log = SubSeq(SuccessfulBoot, 1, 8)
    /\ main_pc = "sleep" => (main_log = SuccessfulBoot /\ NoTaskSpawned)

C21_AfterEnterDeep ==
    /\ main_pc = "sleep"
           => /\ main_pc' = "boot"
              /\ UNCHANGED <<sensor_pc, update_pc, relay_pc, CHANNEL, ENABLE_PUMP,
                             pump_pin, wire, BOOT_COUNT, DISCOVERY_MESSAGES_SENT>>
    /\ main_pc = "boot"
           => /\ main_pc' = "init"
              /\ BOOT_COUNT' = BOOT_COUNT + 1
              /\ main_log' = SubSeq(SuccessfulBoot, 1, 1)
              /\ NoTaskSpawned'

\* C21: in a boot whose initialization succeeds main has done, once each and
\* in this order: the boot-counter increment, the Wi-Fi and display bring-up,
\* the spawns of update_task, sensor_task and relay_task, the awake timer,
\* STOP_WIFI_SIGNAL and enter_deep.  After enter_deep no task takes a step:
\* the only step is the restart of the chip, and the step after that is the
\* boot-counter increment of the next boot.
C21_WakeCycleInOrderThenHalt ==
    /\ []C21_BootInOrder
    /\ [][C21_AfterEnterDeep]_vars

\* C21 witness: the second boot of the controller went from the boot-counter
\* increment to deep sleep, after update_task published a reading.
C21_Witness ==
    /\ main_pc = "sleep"
    /\ boots = 2
    /\ main_log = SuccessfulBoot
    /\ Len(wire) > 0

\* the readings of variant k in a batch
ReadingsOfKind(sd, k) == {sd.data[j] : j \in {n \in 1..Len(sd.data) : sd.data[n].kind = k}}

\* the batch build_sensor_data makes when only one sample set is not empty
BatchOfHumidityAlone ==
    BuildSensorData(air_humidity_samples, <<>>, <<>>, <<>>, <<>>, BOOT_COUNT)

BatchOfTemperatureAlone ==
    BuildSensorData(<<>>, air_temperature_samples, <<>>, <<>>, <<>>, BOOT_COUNT)

BatchOfSoilAlone ==
    BuildSensorData(<<>>, <<>>, soil_moisture_samples, <<>>, <<>>, BOOT_COUNT)

BatchOfBatteryAlone ==
    BuildSensorData(<<>>, <<>>, <<>>, battery_voltage_samples, <<>>, BOOT_COUNT)

BatchOfWaterAlone ==
    BuildSensorData(<<>>, <<>>, <<>>, <<>>, water_level_samples, BOOT_COUNT)

C22_ReadingsFollowOwnSamples ==
    acq_pc \in {"built", "sent"} =>
        /\ HasKind(acq_sensor_data, "AirHumidity") <=> Len(air_humidity_samples) >= 3
        /\ HasKind(acq_sensor_data, "AirTemperature")
               <=> Len(air_temperature_samples) >= 3
        /\ HasKind(acq_sensor_data, "SoilMoistureRaw")
               <=> Len(soil_moisture_samples) >= 3
        /\ HasKind(acq_sensor_data, "SoilMoisture") <=> Len(soil_moisture_samples) >= 3
        /\ HasKind(acq_sensor_data, "WaterLevel") <=> Len(water_level_samples) >= 3
        /\ HasKind(acq_sensor_data, "BatteryVoltage")
               <=> Len(battery_voltage_samples) >= 3
        /\ ReadingsOfKind(acq_sensor_data, "AirHumidity")
               = ReadingsOfKind(BatchOfHumidityAlone, "AirHumidity")
        /\ ReadingsOfKind(acq_sensor_data, "AirTemperature")
               = ReadingsOfKind(BatchOfTemperatureAlone, "AirTemperature")
        /\ ReadingsOfKind(acq_sensor_data, "SoilMoistureRaw")
               = ReadingsOfKind(BatchOfSoilAlone, "SoilMoistureRaw")
        /\ ReadingsOfKind(acq_sensor_data, "SoilMoisture")
               = ReadingsOfKind(BatchOfSoilAlone, "SoilMoisture")
        /\ ReadingsOfKind(acq_sensor_data, "WaterLevel")
               = ReadingsOfKind(BatchOfWaterAlone, "WaterLevel")
        /\ ReadingsOfKind(acq_sensor_data, "BatteryVoltage")
               = ReadingsOfKind(BatchOfBatteryAlone, "BatteryVoltage")

C22_OneBatchPerCycle ==
    /\ acq_pc # "sent" => CHANNEL = <<>>
    /\ acq_pc \notin {"build", "built", "sent"}
           => (acq_i < SENSOR_SAMPLE_COUNT /\ acq_sensor_data = EmptySensorData)
    /\ acq_pc \in {"build", "built", "sent"} => acq_i = SENSOR_SAMPLE_COUNT
    /\ acq_pc = "sent" => CHANNEL = <<Tagged(acq_sensor_data, 1)>>

\* C22: whatever reads fail in an acquisition cycle, the cycle is never cut
\* short: the batch is built after SENSOR_SAMPLE_COUNT iterations and not
\* before, and that one batch is what the cycle sends on the channel.  The batch holds the reading of a
\* sensor exactly when that sensor's own sample set has at least 3 samples,
\* and the reading is the one that sample set gives when all the other sets
\* are empty: the failures of the other sensors neither remove nor change it.
C22_FailuresOmitOnlyOwnReading ==
    C22_ReadingsFollowOwnSamples /\ C22_OneBatchPerCycle

\* C22 witness: the DHT11 and the water probe failed too often, the soil and
\* battery reads did not; the batch sent holds the soil and battery readings
\* and neither an air nor a water reading.
C22_Witness ==
    /\ acq_pc = "sent"
    /\ Len(air_humidity_samples) = 2
    /\ Len(water_level_samples) = 0
    /\ Len(soil_moisture_samples) = 4
    /\ Len(battery_voltage_samples) = 3
    /\ HasKind(acq_sensor_data, "SoilMoisture")
    /\ HasKind(acq_sensor_data, "BatteryVoltage")
    /\ ~HasKind(acq_sensor_data, "AirHumidity")
    /\ ~HasKind(acq_sensor_data, "WaterLevel")

\* the boots whose batch carries PumpTrigger(true), and the boots with a batch
TrueBoots ==
    {trigger_log[i].boot : i \in {j \in DOMAIN trigger_log : trigger_log[j].trigger}}

BatchBoots == {trigger_log[i].boot : i \in DOMAIN trigger_log}

TriggerBoots(first) ==
    {b \in first..(first + PUMP_TRIGGER_INTERVAL - 1) :
        ((BOOT_COUNT - boots) + b) % PUMP_TRIGGER_INTERVAL = 0}

\* C23: the PumpTrigger of a batch is true exactly when the BOOT_COUNT read at
\* the build, which the current boot has already incremented, is a multiple
\* of PUMP_TRIGGER_INTERVAL; so among any 10 consecutive boots exactly one is
\* the boot whose batches carry PumpTrigger(true), no other boot of the ten
\* carries it, and the batch of the first boot after a cold power-on
\* (counter 0 -> 1) carries PumpTrigger(false).
C23_TriggerEveryTenthBoot ==
    /\ \A i \in DOMAIN trigger_log :
          LET e == trigger_log[i] IN
          /\ e.count = (BOOT_COUNT - boots) + e.boot
          /\ e.trigger <=> (e.count % PUMP_TRIGGER_INTERVAL = 0)
          /\ e.count = 1 => ~e.trigger
    /\ \A first \in 1..boots :
          first + PUMP_TRIGGER_INTERVAL - 1 <= boots
              => LET window == first..(first + PUMP_TRIGGER_INTERVAL - 1) IN
                 /\ Cardinality(TriggerBoots(first)) = 1
                 /\ TrueBoots \cap window \subseteq TriggerBoots(first)
                 /\ TriggerBoots(first) \cap BatchBoots \subseteq TrueBoots

\* C23 witness: twelve boots after a cold power-on, each with a batch: the
\* tenth boot alone carried PumpTrigger(true).
C23_Witness ==
    /\ boots = MaxTriggerBoots
    /\ BOOT_COUNT = MaxTriggerBoots
    /\ BatchBoots = 1..MaxTriggerBoots
    /\ TrueBoots = {PUMP_TRIGGER_INTERVAL}
    /\ trigger_log[1] = [boot |-> 1, count |-> 1, trigger |-> FALSE]

\* the discovery messages on the wire
DiscoveryOnWire == SelectSeq(wire, LAMBDA m : m.kind = "discovery")

\* whether the step publishes a discovery message
DiscoveryPublished == Len(DiscoveryOnWire') = Len(DiscoveryOnWire) + 1

C24_FlagSteps ==
    /\ DISCOVERY_MESSAGES_SENT' # DISCOVERY_MESSAGES_SENT
           => /\ ~DISCOVERY_MESSAGES_SENT /\ DISCOVERY_MESSAGES_SENT'
              /\ update_pc = "discovery"
              /\ Len(wire') >= Len(DiscoveryTopics)
              /\ \A i \in 1..Len(DiscoveryTopics) :
                    wire'[Len(wire') - Len(DiscoveryTopics) + i] =
                        [seq |-> upd_sensor_data.seq, j |-> i,
                         kind |-> "discovery",
                         publish |-> upd_sensor_data.publish]
    /\ DiscoveryPublished => ~DISCOVERY_MESSAGES_SENT /\ update_pc = "discovery"
    /\ (update_pc = "discovery" /\ update_pc' = "connect")
           => ~DISCOVERY_MESSAGES_SENT /\ ~DISCOVERY_MESSAGES_SENT'
    /\ (update_pc = "discovery" /\ ~DISCOVERY_MESSAGES_SENT'
        /\ update_pc' # "connect" /\ main_pc' = main_pc)
           => update_pc' = "discovery"

\* C24: DISCOVERY_MESSAGES_SENT changes only from false to true, in the step
\* that completes the eighth discovery publication (seven sensor variants and
\* the pump) of one publish_discovery_topics call; while it is true no
\* discovery message is published, for any batch of any wake cycle; a failed
\* discovery publication leaves it false.
C24_DiscoveryOnceUntilPowerOn ==
    /\ [](update_pc = "discovery" => ~DISCOVERY_MESSAGES_SENT)
    /\ [][C24_FlagSteps]_vars

\* C24 witness: the eight discovery messages went out with the first batch
\* and set the flag; a reading of the second batch of the same boot is
\* published with no further discovery message.
C24_Witness ==
    /\ DISCOVERY_MESSAGES_SENT
    /\ Len(DiscoveryOnWire) = Len(DiscoveryTopics)
    /\ \A i \in 1..Len(DiscoveryOnWire) : DiscoveryOnWire[i].seq = 1
    /\ \E i \in 1..Len(wire) : wire[i].seq = 2 /\ wire[i].kind # "discovery"

C25_RailsByPosition ==
    /\ moisture_power_pin <=> acq_pc = "moisture_adc"
    /\ water_level_power_pin <=> acq_pc = "water_adc"
    /\ ~(moisture_power_pin /\ water_level_power_pin)
    /\ acq_pc \in {"dht", "battery", "build", "built", "sent"}
           => ~moisture_power_pin /\ ~water_level_power_pin

C25_RailSteps ==
    /\ (acq_pc = "moisture_adc" /\ acq_pc' # acq_pc)
           => ~moisture_power_pin' /\ acq_pc' = "water_on"
    /\ (acq_pc = "water_adc" /\ acq_pc' # acq_pc)
           => ~water_level_power_pin' /\ acq_pc' = "battery"
    /\ (~moisture_power_pin /\ moisture_power_pin') => acq_pc = "moisture_on"
    /\ (~water_level_power_pin /\ water_level_power_pin') => acq_pc = "water_on"

\* C25: each sensor power rail is high only from the start of its own read
\* to the return of read_moisture_sensor / read_water_level_sensor, and is
\* low at that return also when the ADC read failed; the two rails are never
\* high together, and both are low during the DHT11 read, the battery read,
\* the build, the channel send and the wait after it.
C25_RailHighOnlyDuringOwnRead ==
    /\ []C25_RailsByPosition
    /\ [][C25_RailSteps]_vars

\* C25 witness: the first soil moisture read failed (no sample pushed) and
\* the water level read is under way: the moisture rail is low again and
\* the water level rail is high.
C25_Witness ==
    /\ acq_pc = "water_adc"
    /\ acq_i = 0
    /\ soil_moisture_samples = <<>>
    /\ ~moisture_power_pin
    /\ water_level_power_pin

\* C26: every SoilMoistureRaw reading of a batch lies in
\* [MOISTURE_MIN, MOISTURE_MAX], and the batch holds exactly one SoilMoisture
\* reading, the classification of that same clamped value: a raw value of
\* MOISTURE_MIN comes with Wet and a raw value of MOISTURE_MAX with Dry.
C26_RawClampedAndClassified ==
    \A j \in 1..Len(acq_sensor_data.data) :
        LET r == acq_sensor_data.data[j] IN
        r.kind = "SoilMoistureRaw"
            => /\ r.val >= MOISTURE_MIN /\ r.val <= MOISTURE_MAX
               /\ r.val = ClampSoilMoisture(CalculateAverage(soil_moisture_samples, 16).v)
               /\ Cardinality({n \in 1..Len(acq_sensor_data.data) :
                       acq_sensor_data.data[n].kind = "SoilMoisture"}) = 1
               /\ HasReading(acq_sensor_data, "SoilMoisture",
                             MoistureLevelFrom(r.val))
               /\ r.val = MOISTURE_MIN
                      => HasReading(acq_sensor_data, "SoilMoisture", "Wet")
               /\ r.val = MOISTURE_MAX
                      => HasReading(acq_sensor_data, "SoilMoisture", "Dry")

\* C26 witness: the average of the soil samples was above MOISTURE_MAX; the
\* batch reports the clamped MOISTURE_MAX together with Dry.
C26_Witness ==
    /\ acq_pc = "built"
    /\ Len(soil_moisture_samples) = SENSOR_SAMPLE_COUNT
    /\ \A n \in 2..4 : soil_moisture_samples[n] = U16_MAX
    /\ HasReading(acq_sensor_data, "SoilMoistureRaw", MOISTURE_MAX)
    /\ HasReading(acq_sensor_data, "SoilMoisture", "Dry")

\* whether update_task has handled a batch in this wake cycle: it received
\* one and, when the batch is to be published, every reading of it is out
BatchHandled ==
    /\ upd_sensor_data # NoBatch
    /\ upd_sensor_data.publish
           => Len(SelectSeq(wire, LAMBDA m : m.seq = upd_sensor_data.seq))
                  = Len(upd_sensor_data.data)

\* whether update_task holds an MQTT connection
MqttConnected ==
    update_pc \in {"subscribe", "select", "discovery", "publish", "display",
                   "display_timer"}

C27_SleepStep ==
    (main_pc = "awake" /\ main_pc' = "sleep" /\ boot_origin = Initialized
     /\ MqttConnected)
        => BatchHandled

\* C27 as stated: in every wake cycle in which initialization and the MQTT
\* connection succeed, a batch has been acquired, sent and handled by
\* update_task when main enters deep sleep.
C27_BatchHandledBeforeSleep == [][C27_SleepStep]_vars

C27_WindowAndAcquisition ==
    /\ main_pc = "sleep" => awake_ms >= awake_window * 1000
    /\ batches >= 1 => awake_ms >= 10750
    /\ upd_sensor_data # NoBatch
           => /\ batches >= 1
              /\ upd_sensor_data = sensor_data
              /\ awake_window * 1000 >= 10750
    /\ BatchHandled => upd_sensor_data.seq = 1

C27_WindowSteps ==
    /\ (main_pc = "awake" /\ main_pc' = "sleep")
           => awake_ms = awake_window * 1000
    /\ awake_ms' # awake_ms
           => main_pc = "awake" /\ main_pc' = "awake" /\ awake_ms' > awake_ms

\* C27 (amended): main enters deep sleep when AWAKE_DURATION_SECONDS have
\* passed since it spawned the tasks, whatever the tasks have done; a batch
\* exists only from 10.75 s = SENSOR_SAMPLE_COUNT x (2000 + 3 x 50) ms into
\* the window, and a batch update_task has handled before deep sleep is the
\* one acquired and sent in this wake cycle, in a window of at least one
\* acquisition.
C27_WindowBoundsTheRoundTrip ==
    /\ []C27_WindowAndAcquisition
    /\ [][C27_WindowSteps]_vars

\* C27 witness: with a window of 30 s, main is in deep sleep after update_task
\* published every reading of the batch acquired in the window.
C27_Witness ==
    /\ main_pc = "sleep"
    /\ awake_window = 30
    /\ awake_ms = 30000
    /\ BatchHandled
    /\ upd_sensor_data.publish
    /\ Len(wire) = Len(upd_sensor_data.data)
    /\ Len(wire) > 0

\* C28: every acquisition cycle terminates: whatever the hardware and the
\* consumer do, collect_all_sensor_data returns and sender.send completes,
\* each blocking step (DHT11 pulse waits, ADC reads through nb::block!,
\* warm-up timers, channel send) ending after a bounded number of steps.
C28_CycleTerminates == <>(acq_pc = "sent")

\* C29: for every time now and every period > 0 in whole seconds,
\* next_rounded_wakeup(now, period) is a multiple of the period, strictly
\* greater than now and at most now + period, and
\* duration_to_next_rounded_wakeup(now, period) lies in (0, period]; at
\* 09:46:12 the next wakeup is 09:47:00 for 1 minute, 09:50:00 for 5 minutes
\* and 10:00:00 for 1 hour.
C29_NextWakeupOnPeriodGrid ==
    clk_pc = "done"
        => /\ clk_then % clk_period = 0
           /\ clk_then > clk_now
           /\ clk_then <= clk_now + clk_period
           /\ clk_wait > 0
           /\ clk_wait <= clk_period
           /\ clk_wait = clk_then - clk_now
           /\ clk_now = ClockExample * TICK_HZ
                  => /\ clk_period = 60 * TICK_HZ
                         => clk_then = (9 * 3600 + 47 * 60) * TICK_HZ
                     /\ clk_period = 300 * TICK_HZ
                         => clk_then = (9 * 3600 + 50 * 60) * TICK_HZ
                     /\ clk_period = 3600 * TICK_HZ
                         => clk_then = (10 * 3600) * TICK_HZ

\* C29 witness: the call at 09:46:12 with a period of 5 minutes returned
\* 09:50:00, 228 seconds ahead.
C29_Witness ==
    /\ clk_pc = "done"
    /\ clk_now = ClockExample * TICK_HZ
    /\ clk_period = 300 * TICK_HZ
    /\ clk_then = (9 * 3600 + 50 * 60) * TICK_HZ
    /\ clk_wait = 228 * TICK_HZ

\* the number of bits of byte b (0-based) that read has shifted in so far
BitsIn(b) ==
    IF dht_i >= 8 * (b + 1) THEN 8
    ELSE IF dht_i <= 8 * b THEN 0
    ELSE dht_i - 8 * b

C30_BitIsHighLongerThanLow ==
    \A pl \in LinePulses, ph \in LinePulses :
        (PulseInTime(pl) /\ PulseInTime(ph))
            => ReadBit(pl, ph) = Ok(ph.d > pl.d)

C30_PackedMsbFirst ==
    /\ \A b \in 0..4 :
          BitsIn(b) = 8 => dht_data[b + 1] = dht_frame[b + 1]
    /\ dht_pc \in {"bits", "finish"}
           => \A k \in 0..(dht_i - 1) :
                 ((dht_data[(k \div 8) + 1]
                      \div (2 ^ (BitsIn(k \div 8) - 1 - (k % 8)))) % 2 = 1)
                     <=> FrameBit(dht_frame, k)
    /\ dht_pc = "finish"
           => \A k \in 0..39 :
                 ((dht_data[(k \div 8) + 1] \div (2 ^ (7 - (k % 8)))) % 2 = 1)
                     <=> FrameBit(dht_frame, k)

C30_AckIsNoBit ==
    /\ (dht_pc = "bits" /\ dht_i = 0)
           => dht_data = <<0, 0, 0, 0, 0>> /\ dht_waits = 2
    /\ dht_pc = "finish" => dht_i = 40 /\ dht_waits = 2 + 2 * 40

\* C30: Dht11::read decodes each of the 40 data bits as 1 exactly when the
\* high pulse measured is strictly longer than the low pulse before it (0
\* otherwise, also for equal lengths) and packs the bits MSB-first: bit i of
\* the transmission is bit 7 - (i mod 8) of byte i div 8; the acknowledgement
\* pulse pair of the handshake is consumed and contributes no bit.
C30_BitsDecodedAndPacked ==
    /\ C30_BitIsHighLongerThanLow
    /\ C30_PackedMsbFirst
    /\ C30_AckIsNoBit

\* C30 witness: all 40 bits of the frame 85, 1, 255, 0, 85 are in, after the
\* acknowledgement pair and 40 pulse pairs: data holds the frame.
C30_Witness ==
    /\ dht_pc = "finish"
    /\ dht_i = 40
    /\ dht_frame = <<85, 1, 255, 0, 85>>
    /\ dht_data = dht_frame
    /\ dht_waits = 82

(***************************************************************************)
(* C31: GPIO errors of Dht11::read.                                        *)
(***************************************************************************)
\* the wait_for_pulse calls read makes in the step in which the named GPIO
\* operation fails: the failing call is the last one
WaitsUpToFailure(op) ==
    IF op = "set" THEN 0 ELSE IF op = "first_wait" THEN 1 ELSE 2

\* after a GPIO failure read has returned Err(Gpio(e)) with no Measurement
C31_GpioFailureReturned ==
    dht_gpio_failed # "none" =>
        /\ dht_pc = "done"
        /\ dht_result.kind = "Gpio"
        /\ dht_result.kind \notin {"Ok", "Timeout", "CrcMismatch"}
        /\ dht_result = ReadResult(Err("Gpio"))

\* the step in which a GPIO operation fails makes no wait_for_pulse call
\* after the failing one and shifts no bit in, and nothing of the read
\* changes once it has returned
C31_FailureSteps ==
    [][/\ (dht_gpio_failed' # "none" /\ dht_gpio_failed = "none") =>
              /\ dht_waits' = dht_waits + WaitsUpToFailure(dht_gpio_failed')
              /\ dht_i' = dht_i
              /\ dht_pc' = "done"
       /\ dht_pc = "done" => UNCHANGED dhtVars]_vars

\* C31: if a GPIO operation (set_high, set_low, is_high) fails at any point of
\* Dht11::read, read returns Err(Gpio(e)) at that point, performs no further
\* line operation and returns no Measurement; the failure is never reported
\* as Timeout or CrcMismatch
C31_GpioErrorPropagated ==
    /\ []C31_GpioFailureReturned
    /\ C31_FailureSteps

\* is_high failed in the second wait of the 17th bit, after 16 bits were read
C31_Witness ==
    /\ dht_gpio_failed = "second_wait"
    /\ dht_i = 16
    /\ dht_pc = "done"
    /\ dht_result.kind = "Gpio"

(***************************************************************************)
(* C32: a failed DHT11 read inside the sample loop.                        *)
(***************************************************************************)
\* the positions of one iteration after the DHT11 read, in program order
AfterDhtPositions == <<"moisture_on", "moisture_adc", "water_on", "water_adc", "battery">>

\* the reads of a kind made so far, when its read is the one at position p of
\* AfterDhtPositions: one per finished iteration and one more when the
\* iteration in progress is past it
ReadsMade(p) ==
    acq_i + (IF \E q \in (p + 1)..Len(AfterDhtPositions) : acq_pc = AfterDhtPositions[q]
             THEN 1 ELSE 0)

\* the temperature and humidity vectors always have the same length
C32_SameLength ==
    Len(air_temperature_samples) = Len(air_humidity_samples)

\* whatever the DHT11 reads returned, every iteration makes its soil, water
\* level and battery reads: the battery reads are all logged, and a sensor
\* that always answers has one sample per read
C32_OtherReadsMade ==
    acq_pc \in {"dht"} \cup RangeOf(AfterDhtPositions) =>
        /\ Len(battery_adc_log) = acq_i
        /\ None \notin hw.moisture => Len(soil_moisture_samples) = ReadsMade(2)
        /\ None \notin hw.water => Len(water_level_samples) = ReadsMade(4)
        /\ None \notin hw.battery => Len(battery_voltage_samples) = acq_i

\* the step of the DHT11 read: a failed read leaves both vectors as they
\* were, a successful one appends its temperature to one and its humidity to
\* the other, and the iteration goes on with the soil moisture read
C32_DhtSteps ==
    [][acq_pc = "dht" =>
          /\ IF acq_dht_result'.some
             THEN /\ air_temperature_samples' =
                         Append(air_temperature_samples, acq_dht_result'.v.temperature)
                  /\ air_humidity_samples' =
                         Append(air_humidity_samples, acq_dht_result'.v.humidity)
             ELSE UNCHANGED <<air_temperature_samples, air_humidity_samples>>
          /\ acq_pc' = AfterDhtPositions[1]
          /\ acq_i' = acq_i
          /\ UNCHANGED <<soil_moisture_samples, water_level_samples,
                         battery_voltage_samples>>]_vars

\* the steps after the DHT11 read follow the program order whatever the read
\* returned
C32_LoopSteps ==
    [][\A p \in 1..(Len(AfterDhtPositions) - 1) :
          acq_pc = AfterDhtPositions[p] =>
              /\ acq_pc' = AfterDhtPositions[p + 1]
              /\ UNCHANGED <<acq_dht_result, air_temperature_samples,
                             air_humidity_samples>>]_vars

\* C32: a failed DHT11 read in sample iteration i leaves the temperature and
\* humidity sample sets exactly as they were after iteration i-1 and does not
\* prevent the soil, water-level and battery reads of iteration i; a
\* successful read appends exactly one value to each of the two sets, so the
\* two sets always have the same length
C32_FailedDhtReadChangesNothing ==
    /\ [](C32_SameLength /\ C32_OtherReadsMade)
    /\ C32_DhtSteps
    /\ C32_LoopSteps

\* the second iteration is over: its DHT11 read failed after a successful one
\* in the first, and both iterations read soil, water level and battery
C32_Witness ==
    /\ acq_pc = "dht"
    /\ acq_i = 2
    /\ acq_dht_result = None
    /\ air_temperature_samples = <<22>>
    /\ air_humidity_samples = <<41>>
    /\ Len(soil_moisture_samples) = 2
    /\ Len(water_level_samples) = 2
    /\ Len(battery_voltage_samples) = 2

(***************************************************************************)
(* C33: the thresholds of MoistureLevel::from.                             *)
(***************************************************************************)
\* c = clamp(v, 800, 2150), written out
ClampedTo800And2150(v) == IF v < 800 THEN 800 ELSE IF v > 2150 THEN 2150 ELSE v

\* w > 0.8 and w < 0.15 for w = (2150 - c) / (2150 - 800), in exact
\* arithmetic: 0.8 = 4/5 and 0.15 = 3/20
WetnessAbove80(c) == 5 * (2150 - c) > 4 * (2150 - 800)

WetnessBelow15(c) == 20 * (2150 - c) < 3 * (2150 - 800)

\* C33: for every raw u16 value v, with c = clamp(v, 800, 2150) and wetness
\* w = (2150 - c) / (2150 - 800): MoistureLevel::from(v) is Wet iff w > 0.8,
\* Dry iff w < 0.15, Moist otherwise; in integers Wet iff c < 1070, Dry iff
\* c > 1947, Moist iff 1070 <= c <= 1947
C33_MoistureLevelThresholds ==
    dom_pc = "returned" =>
        LET c == ClampedTo800And2150(dom_value)
        IN /\ dom_moisture \in {"Wet", "Dry", "Moist"}
           /\ dom_moisture = "Wet" <=> WetnessAbove80(c)
           /\ dom_moisture = "Dry" <=> WetnessBelow15(c)
           /\ dom_moisture = "Moist" <=> (~WetnessAbove80(c) /\ ~WetnessBelow15(c))
           /\ dom_moisture = "Wet" <=> c < 1070
           /\ dom_moisture = "Dry" <=> c > 1947
           /\ dom_moisture = "Moist" <=> (1070 <= c /\ c <= 1947)

\* the value whose wetness is exactly 0.8 has been converted
C33_Witness ==
    /\ dom_pc = "returned"
    /\ dom_value = 1070
    /\ dom_moisture = "Moist"

(***************************************************************************)
(* C34: the boot counter at the width of u32.                              *)
(***************************************************************************)
\* C34: the boot counter wraps at the width of u32: when the stored
\* BOOT_COUNT is 2^32 - 1 at boot, the increment in main stores 0 and the
\* boot proceeds normally (no abort, no reset loop)
C34_BootCountWraps ==
    [][(wrap_pc = "main" /\ wrap_boot_count = U32_MAX) =>
           /\ wrap_boot_count' = U32(0, 0)
           /\ wrap_pc' = "main_fallible"]_vars

(***************************************************************************)
(* C35: one batch per boot.                                                *)
(***************************************************************************)
\* one batch at most is built and queued, and the send finds room
C35_OneBatch ==
    /\ batches <= 1
    /\ Len(CHANNEL) <= 1
    /\ sensor_pc = "send" => (CHANNEL = <<>> /\ ChannelHasRoom(CHANNEL))

\* while main is awake the sampling timer of sensor_task has not expired, by
\* at least the length of its own acquisition, and main's timer is not
\* overdue
C35_SamplingTimerOutlastsWindow ==
    main_pc = "awake" =>
        /\ ~SamplingTimerExpired
        /\ awake_ms <= awake_window * 1000
        /\ sensor_pc = "timer" =>
               /\ sensor_timer_ms >= AcquisitionMillis + awake_window * 1000
               /\ awake_ms + AcquisitionMillis <= sensor_timer_ms

\* C35: at most one batch is sent on the reading channel per boot: after
\* sending a batch sensor_task waits AWAKE_DURATION_SECONDS before the next
\* acquisition, and main enters deep sleep AWAKE_DURATION_SECONDS after
\* spawning the tasks, so a second acquisition never completes; the channel
\* occupancy never exceeds 1 and the sensor task never suspends on a full
\* channel
C35_AtMostOneBatchPerBoot ==
    /\ C35_OneBatch
    /\ C35_SamplingTimerOutlastsWindow

\* main's timer of 30 s has expired; the batch was sent at the earliest
\* moment and the sampling timer has another 10.75 s to go
C35_Witness ==
    /\ main_pc = "awake"
    /\ AwakeTimerExpired
    /\ awake_window = 30
    /\ sensor_pc = "timer"
    /\ sensor_timer_ms = AcquisitionMillis + 30000
    /\ batches = 1

(***************************************************************************)
(* C36: remote pump commands.                                              *)
(***************************************************************************)
\* the number of times the value x was signalled
TimesSignalled(x) ==
    Cardinality({j \in 1..Len(cmd_signals) : cmd_signals[j] = x})

\* what the step that receives a message does with it
C36_ReceiveSteps ==
    [][cmd_received' # cmd_received =>
          LET m == cmd_event'
              command == m.payload.utf8 /\ m.topic = PumpSetTopic /\ m.payload.text # ""
          IN /\ (command /\ m.payload.text = "OPEN") =>
                    (cmd_signals' = Append(cmd_signals, TRUE) /\ cmd_pc' = "clear")
             /\ (command /\ m.payload.text # "OPEN") =>
                    (cmd_signals' = Append(cmd_signals, FALSE) /\ cmd_pc' = "select")
             /\ ~command => (UNCHANGED cmd_signals /\ cmd_pc' = "select")
             /\ UNCHANGED cmd_clears]_vars

\* a scheduled clear is published once, and nothing else publishes one
C36_ClearSteps ==
    [][/\ cmd_pc = "clear" => (cmd_clears' = cmd_clears + 1 /\ cmd_pc' = "select")
       /\ cmd_clears' # cmd_clears => cmd_pc = "clear"]_vars

\* one empty publish per "OPEN" received, whatever came back from the broker
C36_OneClearPerOpen ==
    cmd_clears + (IF cmd_pc = "clear" THEN 1 ELSE 0) = TimesSignalled(TRUE)

\* C36: a valid UTF-8 message on the pump set topic equal to "OPEN" signals
\* true on ENABLE_PUMP and schedules exactly one empty retained publish to
\* that topic; any other non-empty message signals false and schedules
\* nothing; an empty message, a message on any other topic or an invalid
\* UTF-8 payload signals nothing and schedules nothing; so the empty message
\* sent back by the broker after a clear never changes the pump state and
\* never causes another clear
C36_RemoteCommands ==
    /\ C36_ReceiveSteps
    /\ C36_ClearSteps
    /\ []C36_OneClearPerOpen

\* "OPEN" was received, the clear was published and the empty message that
\* came back has been received: one signal, one clear
C36_Witness ==
    /\ cmd_received = 2
    /\ cmd_event = ClearMessage
    /\ cmd_echoes = 0
    /\ cmd_clears = 1
    /\ cmd_signals = <<TRUE>>
    /\ cmd_pc = "select"

(***************************************************************************)
(* C37: the interlock on a batch without a water level reading.            *)
(***************************************************************************)
\* a published batch whose water level aggregate failed while the trigger is
\* set
TriggeredWithoutWaterLevel(sd) ==
    /\ sd.publish
    /\ HasReading(sd, "PumpTrigger", TRUE)
    /\ ~HasKind(sd, "WaterLevel")

\* a batch that allows the pump to start
TriggeredWhileEmpty(sd) ==
    /\ HasReading(sd, "PumpTrigger", TRUE)
    /\ HasReading(sd, "WaterLevel", "Empty")

\* the value pending on ENABLE_PUMP and the value relay_task took
C37_MissingWaterLevelSignalsFalse ==
    /\ (pump_origin.kind = "batch" /\ ~HasKind(pump_origin.sd, "WaterLevel"))
           => ENABLE_PUMP = Some(FALSE)
    /\ (relay_taken.origin.kind = "batch"
            /\ ~HasKind(relay_taken.origin.sd, "WaterLevel"))
           => relay_taken.v = FALSE
    /\ (pump_origin.kind = "batch" /\ ENABLE_PUMP = Some(TRUE))
           => TriggeredWhileEmpty(pump_origin.sd)
    /\ (relay_taken.origin.kind = "batch" /\ relay_taken.v = TRUE)
           => TriggeredWhileEmpty(relay_taken.origin.sd)

\* the step in which publish_sensor_data signals for its batch
C37_SignalSteps ==
    [][(update_pc' = "publish" /\ update_pc # "publish") =>
           LET sd == upd_sensor_data'
           IN /\ sd.publish
              /\ upd_signals' = 1
              /\ ~HasKind(sd, "WaterLevel") => ENABLE_PUMP' = Some(FALSE)
              /\ ENABLE_PUMP' = Some(TRUE) <=> TriggeredWhileEmpty(sd)]_vars

\* C37: for a published batch that contains no WaterLevel reading,
\* publish_sensor_data signals false on ENABLE_PUMP even when PumpTrigger is
\* true; true is signalled from a batch only if the batch contains
\* WaterLevel(Empty) and PumpTrigger(true)
C37_InterlockFailSafe ==
    /\ []C37_MissingWaterLevelSignalsFalse
    /\ C37_SignalSteps

\* relay_task has taken the false signalled for a published batch with the
\* trigger set and no water level reading, and the pin is low
C37_Witness ==
    /\ relay_taken.origin.kind = "batch"
    /\ TriggeredWithoutWaterLevel(relay_taken.origin.sd)
    /\ relay_taken.v = FALSE
    /\ ~pump_pin

(***************************************************************************)
(* C38: the structure of a batch.                                          *)
(***************************************************************************)
\* the variants in the order build_sensor_data pushes them
BatchOrder ==
    <<"AirHumidity", "AirTemperature", "WaterLevel", "SoilMoistureRaw",
      "SoilMoisture", "PumpTrigger", "BatteryVoltage">>

\* the variants of the readings of a batch, in the order of the batch
KindsOf(sd) == [j \in 1..Len(sd.data) |-> sd.data[j].kind]

\* whether the batch built in this cycle holds the variant
InBatch(k) == HasKind(acq_sensor_data, k)

\* the number of pushes build_sensor_data makes on the sample vectors of the
\* cycle: one per aggregate that exists, two for soil, one for the trigger
PushesMade ==
    LET One(samples) == IF Len(samples) >= 3 THEN 1 ELSE 0
    IN One(air_humidity_samples) + One(air_temperature_samples)
           + One(water_level_samples) + 2 * One(soil_moisture_samples)
           + 1 + One(battery_voltage_samples)

\* C38: every batch produced by build_sensor_data holds at most 7 readings, so
\* no push into SensorData.data ever fails; each variant occurs at most once;
\* exactly one PumpTrigger reading is always present; SoilMoistureRaw and
\* SoilMoisture are both present or both absent; and the readings appear in
\* the fixed order AirHumidity, AirTemperature, WaterLevel, SoilMoistureRaw,
\* SoilMoisture, PumpTrigger, BatteryVoltage
C38_BatchStructure ==
    acq_pc \in {"built", "sent"} =>
        /\ Len(acq_sensor_data.data) <= SENSOR_DATA_CAPACITY
        /\ Len(acq_sensor_data.data) = PushesMade
        /\ \A j, k \in 1..Len(acq_sensor_data.data) :
               acq_sensor_data.data[j].kind = acq_sensor_data.data[k].kind => j = k
        /\ Cardinality({j \in 1..Len(acq_sensor_data.data) :
                            acq_sensor_data.data[j].kind = "PumpTrigger"}) = 1
        /\ InBatch("SoilMoistureRaw") <=> InBatch("SoilMoisture")
        /\ KindsOf(acq_sensor_data) = SelectSeq(BatchOrder, InBatch)

\* a cycle in which every sensor answered: the batch holds all seven
\* readings
C38_Witness ==
    /\ acq_pc = "built"
    /\ Len(acq_sensor_data.data) = SENSOR_DATA_CAPACITY
    /\ KindsOf(acq_sensor_data) = BatchOrder

(***************************************************************************)
(* C39: the relay pin at the moment of deep sleep.                         *)
(***************************************************************************)
\* C39: deep sleep is never entered while a pump run is in progress: whenever
\* main calls enter_deep the relay pin is low, every run started by
\* relay_task in the wake cycle having completed its PUMP_INTERVAL and
\* switched the pin off before the awake window ends
C39_PinLowAtEnterDeep ==
    main_pc = "sleep" => ~pump_pin


(***************************************************************************)
(* Claim C40: a batch is handled at most once.                             *)
(***************************************************************************)
\* the positions of update_task inside handle_sensor_data
HandlingPositions == {"discovery", "publish", "display", "display_timer"}

\* the indices of the readings of batch s that went out since boot
SentOf(s) == {wire[a].j : a \in {b \in 1..Len(wire) : wire[b].seq = s}}

\* no reading is on the wire twice, no batch in the channel is the one taken
\* or an earlier one, and publishing a batch starts at its first reading and
\* goes on from the last one sent
C40_HandledOnce ==
    /\ \A a, b \in 1..Len(wire) :
           (wire[a].seq = wire[b].seq /\ wire[a].j = wire[b].j) => a = b
    /\ \A k \in 1..Len(CHANNEL) : CHANNEL[k].seq > upd_sensor_data.seq
    /\ update_pc = "discovery" => SentOf(upd_sensor_data.seq) = {}
    /\ update_pc = "publish" => SentOf(upd_sensor_data.seq) = 1..(upd_i - 1)

\* handling starts only by taking a later batch from the channel; a failure
\* inside handle_sensor_data leads to the reconnection and changes neither the
\* channel, nor what was published, nor the pump signal, nor the relay; a
\* reading goes out only for the batch being published
C40_HandlingSteps ==
    /\ (update_pc \notin HandlingPositions /\ update_pc' \in HandlingPositions)
           => /\ update_pc = "select"
              /\ Len(CHANNEL) > 0
              /\ upd_sensor_data' = Head(CHANNEL)
              /\ CHANNEL' = Tail(CHANNEL)
              /\ upd_sensor_data'.seq > upd_sensor_data.seq
    /\ (update_pc \in HandlingPositions /\ update_pc' \in HandlingPositions)
           => upd_sensor_data' = upd_sensor_data
    /\ (update_pc \in HandlingPositions /\ update_pc' = "connect")
           => UNCHANGED <<CHANNEL, wire, ENABLE_PUMP, pump_origin, relay_taken,
                          pump_pin, relay_pc, upd_sensor_data, sensor_data>>
    /\ (wire' # wire /\ wire' # <<>>)
           => /\ update_pc = "publish"
              /\ Len(wire') = Len(wire) + 1
              /\ SubSeq(wire', 1, Len(wire)) = wire
              /\ wire'[Len(wire')].seq = upd_sensor_data.seq
              /\ wire'[Len(wire')].j = upd_i

\* C40: a batch taken from the channel is handled at most once: when
\* handle_sensor_data fails for it, update_task reconnects, the batch is not
\* put back and none of its readings goes out afterwards or twice, and what
\* was published or signalled before the failure stays
C40_BatchHandledAtMostOnce == []C40_HandledOnce /\ [][C40_HandlingSteps]_vars

\* update_task is reconnecting after the publication of a batch failed midway:
\* the pump state was signalled, some readings went out and some did not
C40_Witness ==
    /\ update_pc = "connect"
    /\ upd_sensor_data.publish
    /\ upd_signals > 0
    /\ SentOf(upd_sensor_data.seq) # {}
    /\ Cardinality(SentOf(upd_sensor_data.seq)) < Len(upd_sensor_data.data)

====
